---- MODULE Spec2Model ----
(***************************************************************************)
(* A model of the arcade game runtime: the Scene (entity map with deferred *)
(* structural mutation), the Physics operators, the InputManager and the   *)
(* GameEngine frame loop with its gameplay rules and level progression.    *)
(*                                                                         *)
(* The specifications of the module:                                       *)
(*   SpecScene  - Scene.addEntity/removeEntity/update/clear, with entity   *)
(*                behaviors whose update hooks call back into the Scene;   *)
(*   Spec       - the GameEngine: start/stop, the frame tick (update and   *)
(*                render), loadLevel, goToNextLevel, its timer and the     *)
(*                restart handler, driven by key and click events;         *)
(*   SpecLoop   - Spec with a fair frame loop;                             *)
(*   SpecAssets, SpecSprites - the AssetManager and the audio preload;     *)
(*   SpecSound  - SoundManager playback;                                   *)
(*   SpecTouch  - the InputManager's touch controls;                       *)
(*   SpecPhysics - detectCollision and resolveCollision on drawn boxes;    *)
(*   SpecEntity - an Entity's behaviors, data and destroy();               *)
(*   SpecLevel  - loadLevel(0) on drawn parameters;                        *)
(*   SpecGround - Scene.update on a walker and a platform.                 *)
(***************************************************************************)
EXTENDS Integers, Sequences, FiniteSets, TLC

VARIABLES
  \* ---- Scene (SpecScene) ----
  entities,          \* Scene.entities: the Map, as the sequence of its values in insertion order
  entitiesToAdd,     \* Scene.entitiesToAdd
  entitiesToRemove,  \* Scene.entitiesToRemove
  isUpdating,        \* Scene.isUpdating
  scenePc,           \* position inside Scene.update: "idle" | "pass"
  cursor,            \* number of map entries the forEach of the pass has visited
  objs,              \* the Entity objects: active flag, number of destroy() calls
  created,           \* Entity objects constructed so far
  visited,           \* objects whose update() ran in the current/last pass
  removalTargets,    \* objects that were mapped under an id when its removal was requested in the pass
  \* ---- GameEngine (Spec) ----
  gameData,          \* GameEngine.gameData: the game definition given to the constructor
  running,           \* GameEngine.running
  rafPending,        \* requestAnimationFrame callbacks scheduled and not yet run
  enginePc,          \* position inside gameLoop: "idle" | "update" | "scene" | "rules" |
                     \*   "collect" | "enemy" | "bounds" | "ai" | "render"
  frames,            \* ticks begun so far
  stops,             \* calls of stop() so far
  onStartCalls,      \* calls of the onStart callback given to initialize()
  onStopCalls,       \* calls of the onStop callback given to initialize()
  deltaTime,         \* deltaTime of the tick in progress (0 between ticks)
  levelTransitioning,\* GameEngine.levelTransitioning
  gameCompleted,     \* GameEngine.gameCompleted
  currentLevelIndex, \* GameEngine.currentLevelIndex (0-based)
  score,             \* GameEngine.score
  collectedItems,    \* GameEngine.collectedItems
  totalCollectibles, \* GameEngine.totalCollectibles
  activeScene,       \* the entities of GameEngine.activeScene, in insertion order
  keys,              \* InputManager.keys: "none" (no entry) | "down" (true) | "up" (false)
  keysPrevious,      \* InputManager.keysPrevious: the keys mapped to true
  keysJustPressed,   \* InputManager.keysJustPressed
  keysJustReleased,  \* InputManager.keysJustReleased
  inputActive,       \* InputManager.active: the window key listeners are attached
  timers,            \* pending setTimeout callbacks of goToNextLevel: their nextLevelIndex
  restartHandlers,   \* restartHandler closures registered on document keydown/click
  sprites,           \* AssetManager.sprites
  enemyCursor,       \* enemies the enemy rule's forEach has visited in this tick
  levelCompleteLogs, \* 'Level complete!' reports since the last loadLevel
  entitiesDestroyed, \* entities destroyed by Scene.clear() in the last loadLevel
  overlapAtStart,    \* collectibles that were active and overlapped the player when the tick began
  \* ---- AssetManager, SoundManager (SpecAssets) ----
  assets,            \* AssetManager.assets: the ids that have a record in the table
  assetObjs,         \* the Asset objects made by loadAsset, by id: type, loaded, error, data
  loadPromises,      \* AssetManager.loadPromises: the ids that have an entry
  loadStage,         \* position of loadAssetData for each id: "none" | "json" | "data" | "settled"
  fetches,           \* calls of loadAssetData per id
  calls,             \* the promises returned by loadAsset: id, outcome, loaded flag of the value at resolution
  managersDisposed,  \* GameEngine.dispose() has run: the engine's manager fields are null
  sounds,            \* SoundManager.sounds: the ids that have a record in the table
  soundStage,        \* position of loadSound for each id: "none" | "fetching" | "decoding" | "loaded" | "failed"
  audioAssets,       \* gameData.assets.audio: which of effects and music are declared
  audioPc,           \* position of preloadAudioAssets: "none" | "effects" | "music" | "done" | "threw"
  unhandledRejections, \* promises that rejected with no handler attached
  lastDraw,          \* what the last drawSprite call put on the canvas, and whether it threw
  \* ---- SoundManager playback (SpecSound) ----
  context,           \* SoundManager.context is not null (and with it gainNode)
  gestures,          \* click, keydown and touchstart events the document has seen
  gainValue,         \* gainNode.gain.value of the shared gain node
  masterVolume,      \* SoundManager.masterVolume, in tenths
  muted,             \* SoundManager.muted
  now,               \* Date.now()
  voices,            \* the source nodes created: id, handle, music, loop, volume, gain, playing, ended event queued
  activeSounds,      \* SoundManager.activeSounds: pairs of instance id and source node
  backgroundMusic,   \* SoundManager.backgroundMusic: the source node, 0 for null
  backgroundMusicId, \* SoundManager.backgroundMusicId, "null" for null
  \* ---- InputManager touch controls (SpecTouch) ----
  virtualButtons,     \* the virtual buttons, in the order they were added
  touchStart,         \* where the current touch began, or NoPoint
  touchEnd,           \* where the touch last moved to, or NoPoint
  touching,           \* a finger is on the target element
  touchHits,          \* history: the buttons a touch start or touch move fell
                      \* into since the most recent touch end
  \* ---- Physics.resolveCollision on its own (SpecPhysics) ----
  colA,               \* the object a given to detectCollision
  colB,               \* the object b
  colResult,          \* the CollisionResult
  colOut,             \* a after resolveCollision
  colPc,              \* "none", "start", "detected", "resolved"
  \* ---- Entity behaviors (SpecEntity) ----
  behaviors,          \* Entity.behaviors: entries of name and behavior object
  initCalls,          \* calls of the init hook of each behavior object
  destroyCalls,       \* calls of the destroy hook of each behavior object
  behaviorCalls,      \* calls made on the entity
  lastCall,           \* history: the last call, and what was attached under
                      \* its name before it
  entityActive,       \* Entity.active
  entityData,         \* Entity.data: its keys
  updateCalls,        \* calls of the update hook of each behavior object
  entityDestroys,     \* history: destroy() calls made
  \* ---- GameEngine.loadLevel on its own (SpecLevel) ----
  levelParams,        \* the game definition given to the engine
  levelScene,         \* activeScene.entities: entries of id and entity, in insertion order
  levelLoads,         \* history: loadLevel(0) calls made
  firstLayout,        \* history: the entities the first loadLevel(0) left
  \* ---- Scene.update on a walker and a platform (SpecGround) ----
  groundScene,        \* the entities of the scene, in insertion order
  groundPasses,       \* Scene.update passes made
  stalePasses         \* history: passes in a row that left the walker marked
                      \* onGround with no solid under it

sceneVars == <<entities, entitiesToAdd, entitiesToRemove, isUpdating, scenePc,
               cursor, objs, created, visited, removalTargets>>

inputVars == <<keys, keysPrevious, keysJustPressed, keysJustReleased, inputActive>>

progressVars == <<levelTransitioning, gameCompleted, currentLevelIndex, score,
                  collectedItems, totalCollectibles>>

callbackVars == <<onStartCalls, onStopCalls>>

assetVars == <<assets, assetObjs, loadPromises, loadStage, fetches, calls>>

audioVars == <<sounds, soundStage, audioAssets, audioPc>>

managerVars == <<assetVars, audioVars, managersDisposed, unhandledRejections,
                 lastDraw>>

playbackVars == <<context, gestures, gainValue, masterVolume, muted, now, voices,
                  activeSounds, backgroundMusic, backgroundMusicId>>

touchVars == <<virtualButtons, touchStart, touchEnd, touching, touchHits>>

physVars == <<colA, colB, colResult, colOut, colPc>>

lifeVars == <<entityActive, entityData, updateCalls, entityDestroys>>

entityVars == <<behaviors, initCalls, destroyCalls, behaviorCalls, lastCall, lifeVars>>

levelVars == <<levelParams, levelScene, levelLoads, firstLayout>>

groundVars == <<groundScene, groundPasses, stalePasses>>

otherVars == <<touchVars, physVars, entityVars, levelVars, groundVars>>

auxVars == <<playbackVars, otherVars>>

gameVars == <<gameData, running, rafPending, enginePc, frames, stops, callbackVars,
              deltaTime,
              progressVars, activeScene, inputVars, timers, restartHandlers,
              sprites, enemyCursor, levelCompleteLogs, entitiesDestroyed,
              overlapAtStart>>

engineVars == <<gameVars, managerVars>>

vars == <<sceneVars, engineVars, auxVars>>

(***************************************************************************)
(* Bounds of the Scene model.                                              *)
(***************************************************************************)
MaxObjs == 4        \* Entity objects that may be constructed
MaxPending == 2     \* requests one pass may buffer in each pending list

ObjIds == 1..MaxObjs

\* Entity.id of each object: caller-supplied (or generated) ids need not be
\* distinct, so two objects may carry the same id.
IdNames == <<"a", "b">>
IdOf(o) == IdNames[((o - 1) % Len(IdNames)) + 1]
EntityIds == {IdNames[i] : i \in 1..Len(IdNames)}

\* Entity constructor: active defaults to true, options.active may clear it.
NewEntity(act) == [active |-> act, destroyCalls |-> 0]

NoObj == 0

-----------------------------------------------------------------------------
(* Map helpers: the JS Map keyed by entity.id, kept as a sequence of objects *)

RECURSIVE IndexOfId(_, _, _)
IndexOfId(seq, id, i) ==
  IF i > Len(seq) THEN 0
  ELSE IF IdOf(seq[i]) = id THEN i ELSE IndexOfId(seq, id, i + 1)

\* Map.get(id): the object under the key, or NoObj
MapGet(seq, id) ==
  LET i == IndexOfId(seq, id, 1) IN IF i = 0 THEN NoObj ELSE seq[i]

\* Map.set(entity.id, entity): replaces the value of an existing key in place,
\* appends a new key
MapSet(seq, o) ==
  LET i == IndexOfId(seq, IdOf(o), 1)
  IN IF i = 0 THEN Append(seq, o) ELSE [seq EXCEPT ![i] = o]

\* Map.delete(id)
MapDelete(seq, id) ==
  LET i == IndexOfId(seq, id, 1)
  IN IF i = 0 THEN seq
     ELSE SubSeq(seq, 1, i - 1) \o SubSeq(seq, i + 1, Len(seq))

MapKeys(seq) == {IdOf(seq[i]) : i \in 1..Len(seq)}
MapValues(seq) == {seq[i] : i \in 1..Len(seq)}

\* Entity.destroy(): behaviors torn down, data cleared, active := false
EntityDestroy(os, o) ==
  [os EXCEPT ![o] = [active |-> FALSE, destroyCalls |-> @.destroyCalls + 1]]

-----------------------------------------------------------------------------
(* Scene operations *)

\* Scene.addEntity without the isUpdating test: the entity goes straight into the map
SceneAddEntity_Unbuffered(o) ==
  /\ entities' = MapSet(entities, o)
  /\ entitiesToAdd' = entitiesToAdd

\* Scene.addEntity(entity)
SceneAddEntity(o) ==
  IF isUpdating
  THEN /\ entitiesToAdd' = Append(entitiesToAdd, o)
       /\ entities' = entities
  ELSE /\ entities' = MapSet(entities, o)
       /\ entitiesToAdd' = entitiesToAdd

\* Scene.removeEntity(entityId)
SceneRemoveEntity(id) ==
  IF isUpdating
  THEN /\ entitiesToRemove' = Append(entitiesToRemove, id)
       /\ UNCHANGED <<entities, objs>>
  ELSE /\ entitiesToRemove' = entitiesToRemove
       /\ LET o == MapGet(entities, id)
          IN IF o # NoObj
             THEN /\ objs' = EntityDestroy(objs, o)
                  /\ entities' = MapDelete(entities, id)
             ELSE UNCHANGED <<entities, objs>>

\* processPendingEntities, first loop: pop() takes the pending adds last-first
RECURSIVE DrainAdds(_, _)
DrainAdds(map, pending) ==
  IF Len(pending) = 0 THEN map
  ELSE DrainAdds(MapSet(map, pending[Len(pending)]),
                 SubSeq(pending, 1, Len(pending) - 1))

\* processPendingEntities, second loop: pop() takes the pending removals
\* last-first; st = [map, objs]
RECURSIVE DrainRemoves(_, _)
DrainRemoves(st, pending) ==
  IF Len(pending) = 0 THEN st
  ELSE LET id == pending[Len(pending)]
           o == MapGet(st.map, id)
           rest == SubSeq(pending, 1, Len(pending) - 1)
       IN IF o # NoObj
          THEN DrainRemoves([map |-> MapDelete(st.map, id),
                             objs |-> EntityDestroy(st.objs, o)], rest)
          ELSE DrainRemoves(st, rest)

\* Scene.processPendingEntities
ProcessPendingEntities(map, os, adds, removes) ==
  DrainRemoves([map |-> DrainAdds(map, adds), objs |-> os], removes)

-----------------------------------------------------------------------------
(* Actions of SpecScene *)

\* new Entity(...) followed by scene.addEntity(entity), called by the host
\* outside an update pass
AddEntity(o, act) ==
  /\ scenePc = "idle"
  /\ o \notin created
  /\ created' = created \cup {o}
  /\ objs' = [objs EXCEPT ![o] = NewEntity(act)]
  /\ SceneAddEntity(o)
  /\ UNCHANGED <<entitiesToRemove, isUpdating, scenePc, cursor, visited, removalTargets>>
  /\ UNCHANGED engineVars
  /\ UNCHANGED auxVars

\* scene.removeEntity(id), called by the host outside an update pass
RemoveEntity(id) ==
  /\ scenePc = "idle"
  /\ SceneRemoveEntity(id)
  /\ UNCHANGED <<entitiesToAdd, isUpdating, scenePc, cursor, created, visited, removalTargets>>
  /\ UNCHANGED engineVars
  /\ UNCHANGED auxVars

\* Scene.update entry: isUpdating = true, the forEach starts
UpdateBegin ==
  /\ scenePc = "idle"
  /\ isUpdating' = TRUE
  /\ scenePc' = "pass"
  /\ cursor' = 0
  /\ visited' = {}
  /\ removalTargets' = {}
  /\ UNCHANGED <<entities, entitiesToAdd, entitiesToRemove, objs, created>>
  /\ UNCHANGED engineVars
  /\ UNCHANGED auxVars

\* the forEach callback for the next map entry: entity.update(deltaTime) when active
EntityUpdate ==
  /\ scenePc = "pass"
  /\ cursor < Len(entities)
  /\ cursor' = cursor + 1
  /\ visited' = IF objs[entities[cursor + 1]].active
                THEN visited \cup {entities[cursor + 1]}
                ELSE visited
  /\ UNCHANGED <<entities, entitiesToAdd, entitiesToRemove, isUpdating, scenePc,
                 objs, created, removalTargets>>
  /\ UNCHANGED engineVars
  /\ UNCHANGED auxVars

\* TRUE while the update hook of an active entity is running
InHook ==
  /\ scenePc = "pass"
  /\ cursor >= 1
  /\ cursor <= Len(entities)
  /\ entities[cursor] \in visited

\* a behavior's update hook constructs an entity and calls scene.addEntity
HookAddEntity(o, act) ==
  /\ InHook
  /\ o \notin created
  /\ Len(entitiesToAdd) < MaxPending
  /\ created' = created \cup {o}
  /\ objs' = [objs EXCEPT ![o] = NewEntity(act)]
  /\ SceneAddEntity(o)
  /\ UNCHANGED <<entitiesToRemove, isUpdating, scenePc, cursor, visited, removalTargets>>
  /\ UNCHANGED engineVars
  /\ UNCHANGED auxVars

\* a behavior's update hook calls scene.removeEntity(id) for another entity
HookRemoveEntity(id) ==
  /\ InHook
  /\ id # IdOf(entities[cursor])
  /\ Len(entitiesToRemove) < MaxPending
  /\ SceneRemoveEntity(id)
  /\ removalTargets' = IF MapGet(entities, id) # NoObj
                       THEN removalTargets \cup {MapGet(entities, id)}
                       ELSE removalTargets
  /\ UNCHANGED <<entitiesToAdd, isUpdating, scenePc, cursor, created, visited>>
  /\ UNCHANGED engineVars
  /\ UNCHANGED auxVars

\* Scene.update after the forEach: the physics pass moves entities but neither
\* adds nor removes any; then isUpdating = false and processPendingEntities()
UpdateEnd ==
  /\ scenePc = "pass"
  /\ cursor >= Len(entities)
  /\ isUpdating' = FALSE
  /\ LET r == ProcessPendingEntities(entities, objs, entitiesToAdd, entitiesToRemove)
     IN /\ entities' = r.map
        /\ objs' = r.objs
  /\ entitiesToAdd' = <<>>
  /\ entitiesToRemove' = <<>>
  /\ scenePc' = "idle"
  /\ UNCHANGED <<cursor, created, visited, removalTargets>>
  /\ UNCHANGED engineVars
  /\ UNCHANGED auxVars

RECURSIVE DestroyAll(_, _, _)
DestroyAll(os, seq, i) ==
  IF i > Len(seq) THEN os ELSE DestroyAll(EntityDestroy(os, seq[i]), seq, i + 1)

\* Scene.clear(), called by the host outside an update pass
Clear ==
  /\ scenePc = "idle"
  /\ Len(entities) > 0
  /\ objs' = DestroyAll(objs, entities, 1)
  /\ entities' = <<>>
  /\ entitiesToAdd' = <<>>
  /\ entitiesToRemove' = <<>>
  /\ UNCHANGED <<isUpdating, scenePc, cursor, created, visited, removalTargets>>
  /\ UNCHANGED engineVars
  /\ UNCHANGED auxVars

\* the Scene after its constructor
SceneConstructed ==
  /\ entities = <<>>
  /\ entitiesToAdd = <<>>
  /\ entitiesToRemove = <<>>
  /\ isUpdating = FALSE
  /\ scenePc = "idle"
  /\ cursor = 0
  /\ objs = [o \in ObjIds |-> NewEntity(TRUE)]
  /\ created = {}
  /\ visited = {}
  /\ removalTargets = {}

\* volumes are counted in tenths: 1.0
FullVolume == 10

\* the asset ids and the sound ids (one effect, one music track) of the
\* asset and sound model
AssetIds == {"player", "tiles"}

EffectId == "jump"

MusicId == "theme"

SoundIds == {EffectId, MusicId}

\* no Asset object has been made for the id
NoAsset == [type |-> "none", loaded |-> FALSE, error |-> "", data |-> "null"]

\* drawSprite has not been called
NoDraw == [id |-> "", drawn |-> "none", color |-> "", threw |-> FALSE]

\* new AssetManager(), new SoundManager(): empty tables, nothing in flight
ManagersConstructed ==
  /\ assets = {}
  /\ assetObjs = [id \in AssetIds |-> NoAsset]
  /\ loadPromises = {}
  /\ loadStage = [id \in AssetIds |-> "none"]
  /\ fetches = [id \in AssetIds |-> 0]
  /\ calls = <<>>
  /\ managersDisposed = FALSE
  /\ sounds = {}
  /\ soundStage = [id \in SoundIds |-> "none"]
  /\ audioPc = "none"
  /\ unhandledRejections = 0
  /\ lastDraw = NoDraw

\* new SoundManager(): no audio context, full volume, nothing playing; the
\* document has seen no user gesture
PlaybackIdle ==
  /\ context = FALSE
  /\ gestures = 0
  /\ gainValue = 0
  /\ masterVolume = FullVolume
  /\ muted = FALSE
  /\ now = 0
  /\ voices = <<>>
  /\ activeSounds = {}
  /\ backgroundMusic = 0
  /\ backgroundMusicId = "null"

NoPoint == [x |-> -1, y |-> -1]

\* new InputManager(): no virtual buttons, no touch
TouchIdle ==
  /\ virtualButtons = <<>>
  /\ touchStart = NoPoint
  /\ touchEnd = NoPoint
  /\ touching = FALSE
  /\ touchHits = {}

\* no collision is being resolved on its own
PhysicsIdle ==
  /\ colA = <<>>
  /\ colB = <<>>
  /\ colResult = <<>>
  /\ colOut = <<>>
  /\ colPc = "none"

\* the behavior objects given to an entity: two are named patrol, one has
\* no init hook, one no destroy hook
BehaviorObjects ==
  << [name |-> "patrol", init |-> TRUE, destroy |-> TRUE, update |-> TRUE],
     [name |-> "patrol", init |-> FALSE, destroy |-> TRUE, update |-> FALSE],
     [name |-> "jump", init |-> TRUE, destroy |-> FALSE, update |-> TRUE] >>

NoCall == [op |-> "none", name |-> "", behavior |-> 0, replaced |-> 0]

\* new Entity(options): no behavior; no hook has been called
NoBehaviors ==
  /\ behaviors = {}
  /\ initCalls = [b \in DOMAIN BehaviorObjects |-> 0]
  /\ destroyCalls = [b \in DOMAIN BehaviorObjects |-> 0]
  /\ behaviorCalls = 0
  /\ lastCall = NoCall
  /\ entityActive = TRUE
  /\ entityData = {}
  /\ updateCalls = [b \in DOMAIN BehaviorObjects |-> 0]
  /\ entityDestroys = 0

\* the parts of the program a specification leaves out are not in use
\* loadLevel is not exercised on its own
LevelIdle ==
  /\ levelParams = "none"
  /\ levelScene = <<>>
  /\ levelLoads = 0
  /\ firstLayout = <<>>

\* no scene of a walker and a platform is being updated
GroundIdle ==
  /\ groundScene = <<>>
  /\ groundPasses = 0
  /\ stalePasses = 0

AuxIdle ==
  PlaybackIdle /\ TouchIdle /\ PhysicsIdle /\ NoBehaviors /\ LevelIdle /\ GroundIdle

\* no game has been given to an engine: no loop, no level, no input
NoGame ==
  /\ gameData = "none"
  /\ running = FALSE
  /\ rafPending = 0
  /\ enginePc = "idle"
  /\ frames = 0
  /\ stops = 0
  /\ onStartCalls = 0
  /\ onStopCalls = 0
  /\ deltaTime = 0
  /\ levelTransitioning = FALSE
  /\ gameCompleted = FALSE
  /\ currentLevelIndex = 0
  /\ score = 0
  /\ collectedItems = 0
  /\ totalCollectibles = 0
  /\ activeScene = <<>>
  /\ keys = <<>>
  /\ keysPrevious = {}
  /\ keysJustPressed = {}
  /\ keysJustReleased = {}
  /\ inputActive = FALSE
  /\ timers = <<>>
  /\ restartHandlers = 0
  /\ sprites = <<>>
  /\ enemyCursor = 0
  /\ levelCompleteLogs = 0
  /\ entitiesDestroyed = 0
  /\ overlapAtStart = {}

\* no GameEngine has been constructed: the Scene is used on its own
NoEngine == NoGame /\ ManagersConstructed /\ audioAssets = {} /\ AuxIdle

InitScene == SceneConstructed /\ NoEngine

NextScene ==
  \/ \E o \in ObjIds, act \in BOOLEAN : AddEntity(o, act)
  \/ \E id \in EntityIds : RemoveEntity(id)
  \/ UpdateBegin
  \/ EntityUpdate
  \/ \E o \in ObjIds, act \in BOOLEAN : HookAddEntity(o, act)
  \/ \E id \in EntityIds : HookRemoveEntity(id)
  \/ UpdateEnd
  \/ Clear

SpecScene == InitScene /\ [][NextScene]_vars

-----------------------------------------------------------------------------
(* Physics: operators over entity records.  Numbers are integers: the game  *)
(* data of the model gives integer gravity, friction, speeds and sizes, and *)
(* comparisons with a half (height / 2) are made on the doubled values.     *)

TerminalVelocity == 10

Min2(a, b) == IF a <= b THEN a ELSE b
Min4(a, b, c, d) == Min2(Min2(a, b), Min2(c, d))

\* a field the parameters leave out reads as undefined; a product with
\* undefined is NaN
Undefined == 0 - 9999

NaN == 0 - 9998

\* a || d: the default for 0, undefined and NaN
OrDefault(a, d) == IF a = 0 \/ a = Undefined \/ a = NaN THEN d ELSE a

\* a * b
Times(a, b) == IF {a, b} \cap {Undefined, NaN} # {} THEN NaN ELSE a * b

\* a.bouncy ? (a.bounceCoefficient ?? default) : 0
\* bounce coefficients are counted in tenths; a.bounceCoefficient that is
\* undefined is NoCoefficient
CoefficientScale == 10

DefaultBounceCoefficient == 3

NoCoefficient == 0 - 1

BounceCoefficient(a) ==
  IF a.bouncy
  THEN (IF a.bounceCoefficient = NoCoefficient
        THEN DefaultBounceCoefficient
        ELSE a.bounceCoefficient)
  ELSE 0

\* resolveCollision with the top case clamping a whatever its velocity
ResolveCollision_TopAlways(a, b, result) ==
  IF ~result.collided \/ result.overlap = 0 THEN a
  ELSE CASE result.direction = "top" ->
              [a EXCEPT !.y = b.y - a.height, !.velocityY = 0, !.onGround = TRUE]
         [] result.direction = "bottom" ->
              [a EXCEPT !.y = b.y + b.height,
                        !.velocityY = ((0 - a.velocityY) * BounceCoefficient(a))
                                         \div CoefficientScale]
         [] result.direction = "left" ->
              [a EXCEPT !.x = b.x - a.width,
                        !.velocityX = ((0 - a.velocityX) * BounceCoefficient(a))
                                         \div CoefficientScale]
         [] result.direction = "right" ->
              [a EXCEPT !.x = b.x + b.width,
                        !.velocityX = ((0 - a.velocityX) * BounceCoefficient(a))
                                         \div CoefficientScale]
         [] OTHER -> a

\* resolveCollision reflecting the velocity without the bounce coefficient
ResolveCollision_FullBounce(a, b, result) ==
  IF ~result.collided \/ result.overlap = 0 THEN a
  ELSE CASE result.direction = "top" ->
              IF a.velocityY >= 0
              THEN [a EXCEPT !.y = b.y - a.height, !.velocityY = 0, !.onGround = TRUE]
              ELSE a
         [] result.direction = "bottom" ->
              [a EXCEPT !.y = b.y + b.height, !.velocityY = 0 - a.velocityY]
         [] result.direction = "left" ->
              [a EXCEPT !.x = b.x - a.width, !.velocityX = 0 - a.velocityX]
         [] result.direction = "right" ->
              [a EXCEPT !.x = b.x + b.width, !.velocityX = 0 - a.velocityX]
         [] OTHER -> a

\* Physics.update(entity)
PhysicsUpdate(e, gravity, friction) ==
  LET vy1 == IF ~e.onGround THEN e.velocityY + gravity ELSE e.velocityY
      vx1 == IF e.onGround THEN e.velocityX * friction ELSE e.velocityX
      vy2 == IF vy1 > TerminalVelocity THEN TerminalVelocity ELSE vy1
      y1  == e.y + vy2
  IN [e EXCEPT !.velocityX = vx1,
               !.velocityY = vy2,
               !.x = e.x + vx1,
               !.y = y1,
               !.onGround = IF (y1 - e.y > 1) /\ e.onGround THEN FALSE ELSE e.onGround]

NoCollision == [collided |-> FALSE, direction |-> "none", overlap |-> 0]

\* Physics.detectCollision(a, b)
DetectCollision(a, b) ==
  IF ~a.solid \/ ~b.solid THEN NoCollision
  ELSE
    LET aLeft == a.x
        aRight == a.x + a.width
        aTop == a.y
        aBottom == a.y + a.height
        bLeft == b.x
        bRight == b.x + b.width
        bTop == b.y
        bBottom == b.y + b.height
    IN IF aRight <= bLeft \/ aLeft >= bRight \/ aBottom <= bTop \/ aTop >= bBottom
       THEN NoCollision
       ELSE
         LET overlapLeft == aRight - bLeft
             overlapRight == bRight - aLeft
             overlapTop == aBottom - bTop
             overlapBottom == bBottom - aTop
             minOverlap == Min4(overlapLeft, overlapRight, overlapTop, overlapBottom)
             direction ==
               IF "platform" \in b.tags /\ a.velocityY > 0
               THEN IF 2 * overlapTop < a.height THEN "top"
                    ELSE IF minOverlap = overlapLeft THEN "left"
                    ELSE IF minOverlap = overlapRight THEN "right"
                    ELSE IF minOverlap = overlapBottom THEN "bottom"
                    ELSE "top"
               ELSE IF minOverlap = overlapTop THEN "top"
                    ELSE IF minOverlap = overlapBottom THEN "bottom"
                    ELSE IF minOverlap = overlapLeft THEN "left"
                    ELSE "right"
         IN [collided |-> TRUE, direction |-> direction, overlap |-> minOverlap]

\* Physics.resolveCollision(a, b, result): the new a
ResolveCollision(a, b, result) ==
  IF ~result.collided \/ result.overlap = 0 THEN a
  ELSE CASE result.direction = "top" ->
              IF a.velocityY >= 0
              THEN [a EXCEPT !.y = b.y - a.height, !.velocityY = 0, !.onGround = TRUE]
              ELSE a
         [] result.direction = "bottom" ->
              [a EXCEPT !.y = b.y + b.height,
                        !.velocityY = ((0 - a.velocityY) * BounceCoefficient(a))
                                         \div CoefficientScale]
         [] result.direction = "left" ->
              [a EXCEPT !.x = b.x - a.width,
                        !.velocityX = ((0 - a.velocityX) * BounceCoefficient(a))
                                         \div CoefficientScale]
         [] result.direction = "right" ->
              [a EXCEPT !.x = b.x + b.width,
                        !.velocityX = ((0 - a.velocityX) * BounceCoefficient(a))
                                         \div CoefficientScale]
         [] OTHER -> a

\* Physics.checkCollisions(entity, others): ents[i] against ents[others[k..]],
\* the others read as they are now (they are references to the live entities)
RECURSIVE CheckCollisions(_, _, _, _)
CheckCollisions(ents, i, others, k) ==
  IF k > Len(others) THEN ents
  ELSE LET j == others[k]
       IN IF j = i THEN CheckCollisions(ents, i, others, k + 1)
          ELSE LET r == DetectCollision(ents[i], ents[j])
               IN CheckCollisions(
                    IF r.collided
                    THEN [ents EXCEPT ![i] = ResolveCollision(ents[i], ents[j], r)]
                    ELSE ents,
                    i, others, k + 1)

Indices(ents) == [i \in 1..Len(ents) |-> i]

\* Scene.getEntitiesByTag(tag), as the indices of the entities
EntitiesByTag(ents, tag) == SelectSeq(Indices(ents), LAMBDA i : tag \in ents[i].tags)

\* Scene.update, first loop: the active entities, platforms apart from the others
\* (entity.update runs the behaviors' hooks; the engine's entities have none)
PhysicsEntities(ents) ==
  SelectSeq(Indices(ents), LAMBDA i : ents[i].active /\ "platform" \notin ents[i].tags)
PlatformEntities(ents) ==
  SelectSeq(Indices(ents), LAMBDA i : ents[i].active /\ "platform" \in ents[i].tags)

\* Scene.update, second loop: physics and collisions of each non-platform entity
RECURSIVE PhysicsPass(_, _, _, _, _, _)
PhysicsPass(ents, phys, plats, k, gravity, friction) ==
  IF k > Len(phys) THEN ents
  ELSE LET i == phys[k]
           e1 == [ents EXCEPT ![i] = PhysicsUpdate(ents[i], gravity, friction)]
           e2 == CheckCollisions(e1, i, phys, 1)
           e3 == CheckCollisions(e2, i, plats, 1)
       IN PhysicsPass(e3, phys, plats, k + 1, gravity, friction)

\* Scene.update(deltaTime) on a scene whose entities have no behaviors: nothing
\* is added or removed during the pass, so processPendingEntities finds both
\* buffers empty
SceneUpdate(ents, gravity, friction) ==
  PhysicsPass(ents, PhysicsEntities(ents), PlatformEntities(ents), 1, gravity, friction)

-----------------------------------------------------------------------------
(* Game data: the parameters the engine reads.  A field the source reads    *)
(* with "|| default" is 0 here when the game data leaves it out.            *)

Keys == {"ArrowRight", "Space"}

\* frame times, in the unit in which platform speeds and timers are given
DeltaTimes == {1, 2}

\* a full turn of a moving platform's phase (2 * PI), counted in quarter turns
PhaseTurn == 4

\* Math.sin at the quarter turns
Sine(phase) == CASE phase = 1 -> 1
                 [] phase = 3 -> 0 - 1
                 [] OTHER -> 0

NoData ==
  [maxSpeed |-> 0, jumpForce |-> 0, facingLeft |-> FALSE, value |-> 0,
   behavior |-> "", startX |-> 0, startY |-> 0, direction |-> 0, range |-> 0,
   speed |-> 0, type |-> "", movingPlatform |-> FALSE, moveSpeed |-> 0,
   moveDistance |-> 0, moveDirection |-> "", movePhase |-> 0,
   temporary |-> FALSE, disappearTime |-> 0, disappearDuration |-> 0]

\* new Entity(options) with the velocities taken as they are given
MakeEntity_RawVelocity(tags, x, y, w, h, vx, vy, data) ==
  [tags |-> tags, x |-> x, y |-> y, width |-> w, height |-> h,
   velocityX |-> vx, velocityY |-> vy, solid |-> TRUE, bouncy |-> FALSE,
   bounceCoefficient |-> NoCoefficient, active |-> TRUE, visible |-> TRUE,
   onGround |-> FALSE, data |-> data]

\* new Entity(options): velocities default 0; active, visible default true;
\* onGround false; not bouncy
MakeEntity(tags, x, y, w, h, vx, vy, data) ==
  [tags |-> tags, x |-> x, y |-> y, width |-> w, height |-> h,
   velocityX |-> OrDefault(vx, 0), velocityY |-> OrDefault(vy, 0),
   solid |-> TRUE, bouncy |-> FALSE,
   bounceCoefficient |-> NoCoefficient, active |-> TRUE, visible |-> TRUE,
   onGround |-> FALSE, data |-> data]

\* entries of world.levels[i].platforms
SolidPlatform(x, y, w, h) ==
  [x |-> x, y |-> y, width |-> w, height |-> h, type |-> "",
   movingPlatform |-> FALSE, moveSpeed |-> 0, moveDistance |-> 0,
   moveDirection |-> "", disappearDuration |-> 0]
TemporaryPlatform(x, y, w, h, duration) ==
  [SolidPlatform(x, y, w, h) EXCEPT !.type = "temporary", !.disappearDuration = duration]
MovingPlatform(x, y, w, h, direction, distance) ==
  [SolidPlatform(x, y, w, h) EXCEPT !.movingPlatform = TRUE,
                                    !.moveDirection = direction,
                                    !.moveDistance = distance]

\* entries of world.levels; NoLevel is an entry that is null
Level(required, platforms) ==
  [exists |-> TRUE, requiredCollectibles |-> required, platforms |-> platforms]
NoLevel == [exists |-> FALSE, requiredCollectibles |-> 0, platforms |-> <<>>]

Ground == SolidPlatform(1, 20, 40, 2)

\* a run-and-jump course: the player lands on the ground, two collectibles sit
\* on top of each other one step to the right, the exit is just beyond them
CourseGame(levels, spriteConfigs) ==
  [world |-> [width |-> 15, height |-> 30, gravity |-> 1, friction |-> 1,
              levels |-> levels],
   player |-> [declared |-> TRUE, startX |-> 2, startY |-> 16, size |-> 4,
               speed |-> 3, jumpForce |-> 3],
   enemies |-> <<>>,
   collectibles |-> << [x |-> 6, y |-> 17, size |-> 3, value |-> 0],
                       [x |-> 6, y |-> 17, size |-> 3, value |-> 5] >>,
   sprites |-> spriteConfigs]

OneLevelGame ==
  CourseGame(<< Level(1, <<Ground>>) >>,
             << [frames |-> 3, frameTime |-> 2, loop |-> FALSE] >>)

TwoLevelGame ==
  CourseGame(<< Level(1, << TemporaryPlatform(1, 20, 40, 2, 2) >>),
                Level(2, << Ground >>) >>, <<>>)

\* the level list has a hole after the first level
HoleGame ==
  CourseGame(<< Level(0, << Ground, MovingPlatform(30, 27, 2, 1, "vertical", 1) >>),
                NoLevel >>, <<>>)

\* an enemy walks along the ground under a falling player
EnemyGame(playerY) ==
  [world |-> [width |-> 100, height |-> 40, gravity |-> 1, friction |-> 1,
              levels |-> << Level(0, << SolidPlatform(1, 30, 40, 2) >>) >>],
   player |-> [declared |-> TRUE, startX |-> 8, startY |-> playerY, size |-> 4,
               speed |-> 1, jumpForce |-> 3],
   enemies |-> << [x |-> 2, y |-> 26, size |-> 4, speed |-> 2, direction |-> 1,
                   speedY |-> 0, range |-> 0, behavior |-> ""] >>,
   collectibles |-> <<>>,
   sprites |-> <<>>]

\* the player spawns overlapping a collectible; every size and the spawn point
\* are the defaults
OverlapGame ==
  [world |-> [width |-> 800, height |-> 600, gravity |-> 1, friction |-> 1,
              levels |-> << Level(0, <<>>) >>],
   player |-> [declared |-> TRUE, startX |-> 0, startY |-> 0, size |-> 0,
               speed |-> 0, jumpForce |-> 0],
   enemies |-> <<>>,
   collectibles |-> << [x |-> 105, y |-> 105, size |-> 0, value |-> 0] >>,
   sprites |-> <<>>]

GameDatas == {OneLevelGame, TwoLevelGame, HoleGame, EnemyGame(20), EnemyGame(21),
              OverlapGame}

-----------------------------------------------------------------------------
(* GameEngine.loadLevel *)

Levels(data) == data.world.levels

\* params.world.levels[levelIndex], undefined and null alike as NoLevel
LevelAt(data, levelIndex) ==
  IF levelIndex + 1 \in DOMAIN Levels(data) THEN Levels(data)[levelIndex + 1] ELSE NoLevel

PlayerEntity(player) ==
  MakeEntity({"player"},
             OrDefault(player.startX, 100), OrDefault(player.startY, 100),
             OrDefault(player.size, 32), OrDefault(player.size, 32), 0, 0,
             [NoData EXCEPT !.maxSpeed = OrDefault(player.speed, 5),
                            !.jumpForce = OrDefault(player.jumpForce, 10),
                            !.facingLeft = FALSE])

EnemyEntity(enemy, index) ==
  MakeEntity({"enemy"},
             OrDefault(enemy.x, 200 + index * 100), OrDefault(enemy.y, 100),
             OrDefault(enemy.size, 32), OrDefault(enemy.size, 32),
             Times(enemy.direction, OrDefault(enemy.speed, 2)),
             OrDefault(enemy.speedY, 0),
             [NoData EXCEPT !.behavior = IF enemy.behavior = "" THEN "patrol"
                                         ELSE enemy.behavior,
                            !.startX = enemy.x,
                            !.direction = OrDefault(enemy.direction, 1),
                            !.range = OrDefault(enemy.range, 100),
                            !.speed = OrDefault(enemy.speed, 2)])

CollectibleEntity(collectible, index) ==
  MakeEntity({"collectible", "platform"},
             OrDefault(collectible.x, 150 + index * 70), OrDefault(collectible.y, 150),
             OrDefault(collectible.size, 24), OrDefault(collectible.size, 24), 0, 0,
             [NoData EXCEPT !.value = OrDefault(collectible.value, 10)])

PlatformEntity(platform, index) ==
  LET moving == IF platform.movingPlatform
                THEN [NoData EXCEPT !.movingPlatform = TRUE,
                                    !.moveSpeed = OrDefault(platform.moveSpeed, 1),
                                    !.moveDistance = OrDefault(platform.moveDistance, 100),
                                    !.moveDirection = IF platform.moveDirection = ""
                                                      THEN "horizontal"
                                                      ELSE platform.moveDirection,
                                    !.startX = platform.x,
                                    !.startY = platform.y,
                                    !.movePhase = 0]
                ELSE NoData
      temp == IF platform.type = "temporary"
              THEN [moving EXCEPT !.temporary = TRUE,
                                  !.disappearTime = 0,
                                  !.disappearDuration = OrDefault(platform.disappearDuration, 1)]
              ELSE moving
  IN MakeEntity({"platform"},
                OrDefault(platform.x, 100 + index * 150), OrDefault(platform.y, 400),
                OrDefault(platform.width, 100), OrDefault(platform.height, 20), 0, 0,
                [temp EXCEPT !.type = IF platform.type = "" THEN "solid" ELSE platform.type])

\* the entities loadLevel creates for an existing level, in creation order
LevelEntities(data, levelIndex) ==
  LET level == LevelAt(data, levelIndex)
  IN (IF data.player.declared THEN << PlayerEntity(data.player) >> ELSE <<>>)
     \o [i \in 1..Len(data.enemies) |-> EnemyEntity(data.enemies[i], i - 1)]
     \o [i \in 1..Len(data.collectibles) |-> CollectibleEntity(data.collectibles[i], i - 1)]
     \o [i \in 1..Len(level.platforms) |-> PlatformEntity(level.platforms[i], i - 1)]

\* loadLevel(levelIndex): activeScene.clear() destroys every entity, then the
\* level is looked up and, when it exists, its entities are created
LoadLevel(levelIndex) ==
  /\ entitiesDestroyed' = Len(activeScene)
  /\ levelCompleteLogs' = 0
  /\ IF ~LevelAt(gameData, levelIndex).exists
     THEN activeScene' = <<>> /\ UNCHANGED totalCollectibles
     ELSE /\ activeScene' = LevelEntities(gameData, levelIndex)
          /\ totalCollectibles' = IF Len(gameData.collectibles) > 0
                                  THEN Len(gameData.collectibles)
                                  ELSE totalCollectibles

-----------------------------------------------------------------------------
(* GameEngine.update: the steps of one tick as operators on the entities *)

MaxFrames == 6      \* ticks the engine may begin
MaxStops == 1       \* calls of stop()

\* GameEngine.checkCollision(a, b)
CheckCollision(a, b) ==
  /\ a.x < b.x + b.width
  /\ a.x + a.width > b.x
  /\ a.y < b.y + b.height
  /\ a.y + a.height > b.y

\* playerEntities[0], as an index (0: there is no player)
PlayerIndex(ents) ==
  LET players == EntitiesByTag(ents, "player")
  IN IF players = <<>> THEN 0 ELSE players[1]

\* the active collectibles the player overlaps
OverlappingCollectibles(ents) ==
  IF PlayerIndex(ents) = 0 THEN {}
  ELSE {i \in 1..Len(ents) : /\ "collectible" \in ents[i].tags
                             /\ ents[i].active
                             /\ CheckCollision(ents[PlayerIndex(ents)], ents[i])}

\* InputManager.getInputs()
Inputs == {k \in Keys : keys[k] = "down"}

\* one sprite's part of updateSprites without the check that holds a
\* non-looping sprite at its last frame
UpdateSprite_AlwaysWraps(sprite, dt) ==
  IF sprite.frames <= 1 THEN sprite
  ELSE LET t == sprite.animationTime + dt
           nxt == (sprite.currentFrame + 1) % sprite.frames
       IN IF t >= sprite.frameTime
          THEN [sprite EXCEPT !.currentFrame = nxt, !.animationTime = 0]
          ELSE [sprite EXCEPT !.animationTime = t]

\* AssetManager.updateSprites(deltaTime), one sprite
UpdateSprite(sprite, dt) ==
  IF sprite.frames <= 1 THEN sprite
  ELSE LET t == sprite.animationTime + dt
           nxt == (sprite.currentFrame + 1) % sprite.frames
       IN IF t >= sprite.frameTime
          THEN [sprite EXCEPT !.currentFrame = IF ~sprite.loop /\ nxt = 0
                                               THEN sprite.frames - 1 ELSE nxt,
                              !.animationTime = 0]
          ELSE [sprite EXCEPT !.animationTime = t]

\* GameEngine.updateMovingPlatform(platform, deltaTime)
UpdateMovingPlatform(platform, dt) ==
  LET speed == OrDefault(platform.data.moveSpeed, 1)
      distance == OrDefault(platform.data.moveDistance, 100)
      direction == IF platform.data.moveDirection = "" THEN "horizontal"
                   ELSE platform.data.moveDirection
      startX == OrDefault(platform.data.startX, platform.x)
      startY == OrDefault(platform.data.startY, platform.y)
      phase == (platform.data.movePhase + speed * dt) % PhaseTurn
  IN [platform EXCEPT !.data.movePhase = phase,
                      !.x = IF direction = "horizontal"
                            THEN startX + Sine(phase) * distance ELSE platform.x,
                      !.y = IF direction = "vertical"
                            THEN startY + Sine(phase) * distance ELSE platform.y]

\* the timer of a temporary platform that was jumped from
UpdateTemporaryPlatform(platform, dt) ==
  IF platform.data.temporary /\ platform.data.disappearTime > 0
  THEN IF platform.data.disappearTime - dt <= 0
       THEN [platform EXCEPT !.active = FALSE, !.visible = FALSE]
       ELSE [platform EXCEPT !.data.disappearTime = platform.data.disappearTime - dt]
  ELSE platform

\* update(): the forEach over the entities tagged 'platform'
UpdatePlatforms(ents, dt) ==
  [i \in 1..Len(ents) |->
     IF "platform" \in ents[i].tags
     THEN UpdateTemporaryPlatform(
            IF ents[i].data.movingPlatform THEN UpdateMovingPlatform(ents[i], dt)
            ELSE ents[i], dt)
     ELSE ents[i]]

\* update(): horizontal movement of the player from the pressed keys
MovePlayer(player, inputs) ==
  IF inputs \cap {"ArrowLeft", "KeyA"} # {}
  THEN [player EXCEPT !.velocityX = 0 - player.data.maxSpeed, !.data.facingLeft = TRUE]
  ELSE IF inputs \cap {"ArrowRight", "KeyD"} # {}
  THEN [player EXCEPT !.velocityX = player.data.maxSpeed, !.data.facingLeft = FALSE]
  ELSE [player EXCEPT !.velocityX = 0]

\* the jump test without the look at onGround
Jumps_InAir(player, inputs) ==
  inputs \cap {"ArrowUp", "KeyW", "Space"} # {}

\* update(): a jump key is down and the player is on the ground
Jumps(player, inputs) ==
  inputs \cap {"ArrowUp", "KeyW", "Space"} # {} /\ player.onGround

\* update(): the jump, and the marking of the temporary platforms jumped from
JumpPlayer(ents, pi, inputs) ==
  IF ~Jumps(ents[pi], inputs) THEN ents
  ELSE [i \in 1..Len(ents) |->
          IF i = pi
          THEN [ents[i] EXCEPT !.velocityY = 0 - ents[i].data.jumpForce,
                               !.onGround = FALSE]
          ELSE IF /\ "platform" \in ents[i].tags
                  /\ ents[i].data.temporary
                  /\ CheckCollision(ents[pi], ents[i])
                  /\ ents[i].data.disappearTime = 0
          THEN [ents[i] EXCEPT !.data.disappearTime =
                                  OrDefault(ents[i].data.disappearDuration, 1)]
          ELSE ents[i]]

\* checkLevelCompletion(): TRUE when it reports 'Level complete!'  (a player
\* exists only in a level that was loaded, so the level record is there)
LevelCompletionReported(ents, level, collected) ==
  collected >= OrDefault(level.requiredCollectibles,
                         Len(EntitiesByTag(ents, "collectible")))

\* update(): the forEach over the collectibles; st carries the entities, the
\* score, collectedItems and the number of completion reports
RECURSIVE CollectPass(_, _, _, _, _)
CollectPass(st, collectibles, k, pi, level) ==
  IF k > Len(collectibles) THEN st
  ELSE LET c == collectibles[k]
       IN IF st.ents[c].active /\ CheckCollision(st.ents[pi], st.ents[c])
          THEN LET ents1 == [st.ents EXCEPT ![c].active = FALSE, ![c].visible = FALSE]
                   n == st.collectedItems + 1
               IN CollectPass(
                    [ents |-> ents1,
                     score |-> st.score + OrDefault(st.ents[c].data.value, 10),
                     collectedItems |-> n,
                     logs |-> IF LevelCompletionReported(ents1, level, n)
                              THEN st.logs + 1 ELSE st.logs],
                    collectibles, k + 1, pi, level)
          ELSE CollectPass(st, collectibles, k + 1, pi, level)

BounceVelocity == 0 - 7
DefeatBonus == 50

\* the landing test against the enemy's bottom edge instead of its middle
FallsOnto_BottomEdge(player, enemy) ==
  player.velocityY > 0 /\ player.y + player.height < enemy.y + enemy.height

\* the player lands on the enemy: falling, and above the enemy's middle
FallsOnto(player, enemy) ==
  player.velocityY > 0 /\ 2 * (player.y + player.height) < 2 * enemy.y + enemy.height

\* update(): the enemy rule for one enemy; the new player, enemy and score
EnemyRule(player, enemy, sc, data) ==
  IF enemy.active /\ CheckCollision(player, enemy)
  THEN IF FallsOnto(player, enemy)
       THEN [player |-> [player EXCEPT !.velocityY = BounceVelocity],
             enemy |-> [enemy EXCEPT !.active = FALSE, !.visible = FALSE],
             score |-> sc + DefeatBonus]
       ELSE [player |-> [player EXCEPT !.x = OrDefault(data.player.startX, 100),
                                       !.y = OrDefault(data.player.startY, 100),
                                       !.velocityX = 0,
                                       !.velocityY = 0],
             enemy |-> enemy,
             score |-> sc]
  ELSE [player |-> player, enemy |-> enemy, score |-> sc]

\* update(): the player fell below the world
FallRule(player, data) ==
  IF player.y > data.world.height
  THEN [player EXCEPT !.x = OrDefault(data.player.startX, 100),
                      !.y = OrDefault(data.player.startY, 100),
                      !.velocityX = 0,
                      !.velocityY = 0]
  ELSE player

\* update(): the player is past the exit line
ReachedExit(player, data) == player.x > data.world.width - player.width * 2

\* GameEngine.updatePatrolEnemy(enemy, deltaTime)
UpdatePatrolEnemy(enemy) ==
  LET startX == OrDefault(enemy.data.startX, enemy.x)
      range == OrDefault(enemy.data.range, 100)
      speed == OrDefault(enemy.data.speed, 2)
      direction == OrDefault(enemy.data.direction, 1)
  IN IF direction > 0 /\ enemy.x > startX + range
     THEN [enemy EXCEPT !.data.direction = 0 - 1, !.velocityX = 0 - speed]
     ELSE IF direction < 0 /\ enemy.x < startX - range
     THEN [enemy EXCEPT !.data.direction = 1, !.velocityX = speed]
     ELSE enemy

\* update(): the forEach over the enemies that runs their behavior
UpdateEnemies(ents) ==
  [i \in 1..Len(ents) |->
     IF "enemy" \in ents[i].tags /\ ents[i].active /\ ents[i].data.behavior = "patrol"
     THEN UpdatePatrolEnemy(ents[i])
     ELSE ents[i]]

-----------------------------------------------------------------------------
(* GameEngine: start, stop, the frame loop, level progression, events.      *)
(* JavaScript runs each callback to completion: events, timers and frame    *)
(* callbacks are taken only between ticks (enginePc = "idle").              *)

\* gameLoop() past its running check: a tick begins
BeginTick(dt) ==
  /\ frames' = frames + 1
  /\ deltaTime' = dt
  /\ enginePc' = "update"
  /\ overlapAtStart' = OverlappingCollectibles(activeScene)

\* GameEngine.start(): nothing when running; else the input listeners are
\* attached, onStart is called and gameLoop() runs at once, with no time
\* elapsed
Start ==
  /\ enginePc = "idle"
  /\ IF running THEN UNCHANGED vars
     ELSE /\ frames < MaxFrames
          /\ running' = TRUE
          /\ inputActive' = TRUE
          /\ onStartCalls' = onStartCalls + 1
          /\ BeginTick(0)
          /\ UNCHANGED <<gameData, onStopCalls, stops, rafPending, progressVars, activeScene, keys,
                         keysPrevious, keysJustPressed, keysJustReleased, timers,
                         restartHandlers, sprites, enemyCursor, levelCompleteLogs,
                         entitiesDestroyed, sceneVars, managerVars>>
  /\ UNCHANGED auxVars

\* GameEngine.stop(): the flag is cleared, the input listeners are removed
\* and onStop is called; a frame callback already requested stays requested
Stop ==
  /\ enginePc = "idle"
  /\ stops < MaxStops
  /\ stops' = stops + 1
  /\ running' = FALSE
  /\ inputActive' = FALSE
  /\ onStopCalls' = onStopCalls + 1
  /\ UNCHANGED <<gameData, onStartCalls, rafPending, enginePc, frames, deltaTime, progressVars,
                 activeScene, keys, keysPrevious, keysJustPressed, keysJustReleased,
                 timers, restartHandlers, sprites, enemyCursor, levelCompleteLogs,
                 entitiesDestroyed, overlapAtStart, sceneVars, managerVars>>
  /\ UNCHANGED auxVars

\* gameLoop() without its running check: a frame callback requested before
\* stop() executes a tick
AnimationFrame_NoRunningCheck ==
  /\ enginePc = "idle"
  /\ rafPending > 0
  /\ rafPending' = rafPending - 1
  /\ frames < MaxFrames
  /\ \E dt \in DeltaTimes : BeginTick(dt)
  /\ UNCHANGED <<gameData, callbackVars, stops, running, progressVars, activeScene, inputVars, timers,
                 restartHandlers, sprites, enemyCursor, levelCompleteLogs,
                 entitiesDestroyed, sceneVars, managerVars>>
  /\ UNCHANGED auxVars

\* a frame callback that the browser holds back until the sprites of the
\* preload exist
AnimationFrame_WaitsForAssets ==
  /\ enginePc = "idle"
  /\ rafPending > 0
  /\ sprites # <<>> \/ gameData.sprites = <<>>
  /\ rafPending' = rafPending - 1
  /\ IF running
     THEN /\ frames < MaxFrames
          /\ \E dt \in DeltaTimes : BeginTick(dt)
     ELSE UNCHANGED <<frames, deltaTime, enginePc, overlapAtStart>>
  /\ UNCHANGED <<gameData, callbackVars, stops, running, progressVars, activeScene, inputVars, timers,
                 restartHandlers, sprites, enemyCursor, levelCompleteLogs,
                 entitiesDestroyed, sceneVars, managerVars>>
  /\ UNCHANGED auxVars

\* a requestAnimationFrame callback runs gameLoop(): it returns when the
\* engine was stopped, else a tick begins
AnimationFrame ==
  /\ enginePc = "idle"
  /\ rafPending > 0
  /\ rafPending' = rafPending - 1
  /\ IF running
     THEN /\ frames < MaxFrames
          /\ \E dt \in DeltaTimes : BeginTick(dt)
     ELSE UNCHANGED <<frames, deltaTime, enginePc, overlapAtStart>>
  /\ UNCHANGED <<gameData, callbackVars, stops, running, progressVars, activeScene, inputVars, timers,
                 restartHandlers, sprites, enemyCursor, levelCompleteLogs,
                 entitiesDestroyed, sceneVars, managerVars>>
  /\ UNCHANGED auxVars

\* update(deltaTime) without the levelTransitioning check: the input update,
\* the sprite clocks and the platforms run during a transition
UpdateSkipped_NotSkipped ==
  /\ enginePc = "update"
  /\ levelTransitioning
  /\ keysJustPressed' = {k \in Keys : keys[k] = "down" /\ k \notin keysPrevious}
  /\ keysJustReleased' = {k \in Keys : keys[k] = "up" /\ k \in keysPrevious}
  /\ keysPrevious' = (keysPrevious \ {k \in Keys : keys[k] = "up"})
                       \cup {k \in Keys : keys[k] = "down"}
  /\ sprites' = [i \in 1..Len(sprites) |-> UpdateSprite(sprites[i], deltaTime)]
  /\ activeScene' = UpdatePlatforms(activeScene, deltaTime)
  /\ enginePc' = "render"
  /\ UNCHANGED <<gameData, callbackVars, stops, running, rafPending, frames, deltaTime, progressVars,
                 keys, inputActive, timers, restartHandlers, enemyCursor,
                 levelCompleteLogs, entitiesDestroyed, overlapAtStart, sceneVars, managerVars>>
  /\ UNCHANGED auxVars

\* update(deltaTime) while a level transition is in progress: it returns at once
UpdateSkipped ==
  /\ enginePc = "update"
  /\ levelTransitioning
  /\ enginePc' = "render"
  /\ UNCHANGED <<gameData, callbackVars, stops, running, rafPending, frames, deltaTime, progressVars,
                 activeScene, inputVars, timers, restartHandlers, sprites,
                 enemyCursor, levelCompleteLogs, entitiesDestroyed, overlapAtStart,
                 sceneVars, managerVars>>
  /\ UNCHANGED auxVars

\* update(deltaTime) with the call of InputManager.update() left out of its
\* first part
UpdateInput_NoAdvance ==
  /\ enginePc = "update"
  /\ ~levelTransitioning
  /\ sprites' = [i \in 1..Len(sprites) |-> UpdateSprite(sprites[i], deltaTime)]
  /\ activeScene' = UpdatePlatforms(activeScene, deltaTime)
  /\ enginePc' = "scene"
  /\ UNCHANGED <<gameData, callbackVars, stops, running, rafPending, frames, deltaTime,
                 progressVars, inputVars, timers, restartHandlers, enemyCursor,
                 levelCompleteLogs, entitiesDestroyed, overlapAtStart, sceneVars, managerVars>>
  /\ UNCHANGED auxVars

\* update(deltaTime) with an InputManager.update() that reports every key
\* held as just pressed
UpdateInput_PressedWhileHeld ==
  /\ enginePc = "update"
  /\ ~levelTransitioning
  /\ keysJustPressed' = {k \in Keys : keys[k] = "down"}
  /\ keysJustReleased' = {k \in Keys : keys[k] = "up" /\ k \in keysPrevious}
  /\ keysPrevious' = (keysPrevious \ {k \in Keys : keys[k] = "up"})
                       \cup {k \in Keys : keys[k] = "down"}
  /\ sprites' = [i \in 1..Len(sprites) |-> UpdateSprite(sprites[i], deltaTime)]
  /\ activeScene' = UpdatePlatforms(activeScene, deltaTime)
  /\ enginePc' = "scene"
  /\ UNCHANGED <<gameData, callbackVars, stops, running, rafPending, frames, deltaTime, progressVars,
                 keys, inputActive, timers, restartHandlers, enemyCursor,
                 levelCompleteLogs, entitiesDestroyed, overlapAtStart, sceneVars, managerVars>>
  /\ UNCHANGED auxVars

\* update(deltaTime), first part: InputManager.update(), updateSprites, the
\* moving and the temporary platforms
UpdateInput ==
  /\ enginePc = "update"
  /\ ~levelTransitioning
  /\ keysJustPressed' = {k \in Keys : keys[k] = "down" /\ k \notin keysPrevious}
  /\ keysJustReleased' = {k \in Keys : keys[k] = "up" /\ k \in keysPrevious}
  /\ keysPrevious' = (keysPrevious \ {k \in Keys : keys[k] = "up"})
                       \cup {k \in Keys : keys[k] = "down"}
  /\ sprites' = [i \in 1..Len(sprites) |-> UpdateSprite(sprites[i], deltaTime)]
  /\ activeScene' = UpdatePlatforms(activeScene, deltaTime)
  /\ enginePc' = "scene"
  /\ UNCHANGED <<gameData, callbackVars, stops, running, rafPending, frames, deltaTime, progressVars,
                 keys, inputActive, timers, restartHandlers, enemyCursor,
                 levelCompleteLogs, entitiesDestroyed, overlapAtStart, sceneVars, managerVars>>
  /\ UNCHANGED auxVars

\* update(deltaTime): activeScene.update(deltaTime)
UpdateScene ==
  /\ enginePc = "scene"
  /\ activeScene' = SceneUpdate(activeScene, gameData.world.gravity,
                                gameData.world.friction)
  /\ enginePc' = "rules"
  /\ UNCHANGED <<gameData, callbackVars, stops, running, rafPending, frames, deltaTime, progressVars,
                 inputVars, timers, restartHandlers, sprites, enemyCursor,
                 levelCompleteLogs, entitiesDestroyed, overlapAtStart, sceneVars, managerVars>>
  /\ UNCHANGED auxVars

\* update(deltaTime): the player's movement and jump from the pressed keys;
\* without a player the rule pass is skipped
UpdatePlayer ==
  /\ enginePc = "rules"
  /\ LET pi == PlayerIndex(activeScene)
     IN IF pi = 0
        THEN enginePc' = "ai" /\ UNCHANGED activeScene
        ELSE /\ enginePc' = "collect"
             /\ activeScene' =
                  JumpPlayer([activeScene EXCEPT ![pi] = MovePlayer(activeScene[pi], Inputs)],
                             pi, Inputs)
  /\ UNCHANGED <<gameData, callbackVars, stops, running, rafPending, frames, deltaTime, progressVars,
                 inputVars, timers, restartHandlers, sprites, enemyCursor,
                 levelCompleteLogs, entitiesDestroyed, overlapAtStart, sceneVars, managerVars>>
  /\ UNCHANGED auxVars

\* update(deltaTime): the collectible rule over every collectible
UpdateCollectibles ==
  /\ enginePc = "collect"
  /\ LET st == CollectPass([ents |-> activeScene, score |-> score,
                            collectedItems |-> collectedItems,
                            logs |-> levelCompleteLogs],
                           EntitiesByTag(activeScene, "collectible"), 1,
                           PlayerIndex(activeScene),
                           LevelAt(gameData, currentLevelIndex))
     IN /\ activeScene' = st.ents
        /\ score' = st.score
        /\ collectedItems' = st.collectedItems
        /\ levelCompleteLogs' = st.logs
  /\ enemyCursor' = 0
  /\ enginePc' = IF EntitiesByTag(activeScene, "enemy") = <<>> THEN "bounds" ELSE "enemy"
  /\ UNCHANGED <<gameData, callbackVars, stops, running, rafPending, frames, deltaTime,
                 levelTransitioning, gameCompleted, currentLevelIndex,
                 totalCollectibles, inputVars, timers, restartHandlers, sprites,
                 entitiesDestroyed, overlapAtStart, sceneVars, managerVars>>
  /\ UNCHANGED auxVars

\* update(deltaTime): the enemy rule for the next enemy of the forEach
UpdateEnemyRule ==
  /\ enginePc = "enemy"
  /\ LET enemies == EntitiesByTag(activeScene, "enemy")
         pi == PlayerIndex(activeScene)
         ei == enemies[enemyCursor + 1]
         r == EnemyRule(activeScene[pi], activeScene[ei], score, gameData)
     IN /\ activeScene' = [activeScene EXCEPT ![pi] = r.player, ![ei] = r.enemy]
        /\ score' = r.score
        /\ enemyCursor' = enemyCursor + 1
        /\ enginePc' = IF enemyCursor + 1 >= Len(enemies) THEN "bounds" ELSE "enemy"
  /\ UNCHANGED <<gameData, callbackVars, stops, running, rafPending, frames, deltaTime,
                 levelTransitioning, gameCompleted, currentLevelIndex,
                 collectedItems, totalCollectibles, inputVars, timers,
                 restartHandlers, sprites, levelCompleteLogs, entitiesDestroyed,
                 overlapAtStart, sceneVars, managerVars>>
  /\ UNCHANGED auxVars

\* goToNextLevel() without the look at the length of the level list
GoToNextLevel_NoLengthCheck ==
  IF levelTransitioning
  THEN UNCHANGED <<levelTransitioning, gameCompleted, timers, restartHandlers>>
  ELSE /\ levelTransitioning' = TRUE
       /\ timers' = Append(timers, currentLevelIndex + 1)
       /\ UNCHANGED <<gameCompleted, restartHandlers>>

\* goToNextLevel(): nothing while a transition is in progress; else the flag
\* is set and either the load of the next level is scheduled or the game is
\* completed and the restart handler is registered
GoToNextLevel ==
  IF levelTransitioning
  THEN UNCHANGED <<levelTransitioning, gameCompleted, timers, restartHandlers>>
  ELSE /\ levelTransitioning' = TRUE
       /\ IF currentLevelIndex + 1 < Len(Levels(gameData))
          THEN /\ timers' = Append(timers, currentLevelIndex + 1)
               /\ UNCHANGED <<gameCompleted, restartHandlers>>
          ELSE /\ gameCompleted' = TRUE
               /\ restartHandlers' = restartHandlers + 1
               /\ UNCHANGED timers

\* update(deltaTime): the fall below the world, then the exit check
UpdateBounds ==
  /\ enginePc = "bounds"
  /\ LET pi == PlayerIndex(activeScene)
         player == FallRule(activeScene[pi], gameData)
     IN /\ activeScene' = [activeScene EXCEPT ![pi] = player]
        /\ IF ReachedExit(player, gameData)
           THEN GoToNextLevel
           ELSE UNCHANGED <<levelTransitioning, gameCompleted, timers, restartHandlers>>
  /\ enginePc' = "ai"
  /\ UNCHANGED <<gameData, callbackVars, stops, running, rafPending, frames, deltaTime,
                 currentLevelIndex, score, collectedItems, totalCollectibles,
                 inputVars, sprites, enemyCursor, levelCompleteLogs,
                 entitiesDestroyed, overlapAtStart, sceneVars, managerVars>>
  /\ UNCHANGED auxVars

\* update(deltaTime): the enemies' patrol behavior
UpdateAI ==
  /\ enginePc = "ai"
  /\ activeScene' = UpdateEnemies(activeScene)
  /\ enginePc' = "render"
  /\ UNCHANGED <<gameData, callbackVars, stops, running, rafPending, frames, deltaTime, progressVars,
                 inputVars, timers, restartHandlers, sprites, enemyCursor,
                 levelCompleteLogs, entitiesDestroyed, overlapAtStart, sceneVars, managerVars>>
  /\ UNCHANGED auxVars

\* renderUI reads level.name: it throws when the current level entry is
\* missing, unless the UI is skipped
RenderThrows ==
  /\ ~levelTransitioning
  /\ ~gameCompleted
  /\ ~LevelAt(gameData, currentLevelIndex).exists

\* render(), then the next frame is requested; a throw in render ends the
\* callback before the request
Render ==
  /\ enginePc = "render"
  /\ rafPending' = IF RenderThrows THEN rafPending ELSE rafPending + 1
  /\ enginePc' = "idle"
  /\ deltaTime' = 0
  /\ UNCHANGED <<gameData, callbackVars, stops, running, frames, progressVars, activeScene, inputVars,
                 timers, restartHandlers, sprites, enemyCursor, levelCompleteLogs,
                 entitiesDestroyed, overlapAtStart, sceneVars, managerVars>>
  /\ UNCHANGED auxVars

\* the timer callback without its last statement: the flag stays set
TransitionTimer_FlagKept ==
  /\ enginePc = "idle"
  /\ timers # <<>>
  /\ currentLevelIndex' = Head(timers)
  /\ LoadLevel(Head(timers))
  /\ timers' = Tail(timers)
  /\ UNCHANGED <<gameData, callbackVars, stops, running, rafPending, enginePc, frames, deltaTime,
                 levelTransitioning, gameCompleted, score, collectedItems, inputVars,
                 restartHandlers, sprites, enemyCursor, overlapAtStart, sceneVars, managerVars>>
  /\ UNCHANGED auxVars

\* the callback goToNextLevel gave to setTimeout
TransitionTimer ==
  /\ enginePc = "idle"
  /\ timers # <<>>
  /\ currentLevelIndex' = Head(timers)
  /\ LoadLevel(Head(timers))
  /\ levelTransitioning' = FALSE
  /\ timers' = Tail(timers)
  /\ UNCHANGED <<gameData, callbackVars, stops, running, rafPending, enginePc, frames, deltaTime,
                 gameCompleted, score, collectedItems, inputVars, restartHandlers,
                 sprites, enemyCursor, overlapAtStart, sceneVars, managerVars>>
  /\ UNCHANGED auxVars

\* restartHandler without the removeEventListener calls
RestartHandler_ListenersKept ==
  /\ UNCHANGED restartHandlers
  /\ currentLevelIndex' = 0
  /\ score' = 0
  /\ collectedItems' = 0
  /\ gameCompleted' = FALSE
  /\ LoadLevel(0)
  /\ levelTransitioning' = FALSE

\* restartHandler: both listeners are removed and the game starts over
RestartHandler ==
  /\ restartHandlers' = 0
  /\ currentLevelIndex' = 0
  /\ score' = 0
  /\ collectedItems' = 0
  /\ gameCompleted' = FALSE
  /\ LoadLevel(0)
  /\ levelTransitioning' = FALSE

NoRestart ==
  UNCHANGED <<progressVars, activeScene, restartHandlers, levelCompleteLogs,
              entitiesDestroyed>>

\* a keydown event: the document listener (restartHandler, when registered)
\* and the window listener of the InputManager (when attached)
KeyDown(k) ==
  /\ enginePc = "idle"
  /\ IF restartHandlers > 0 THEN RestartHandler ELSE NoRestart
  /\ keys' = IF inputActive THEN [keys EXCEPT ![k] = "down"] ELSE keys
  /\ UNCHANGED <<gameData, callbackVars, stops, running, rafPending, enginePc, frames, deltaTime,
                 keysPrevious, keysJustPressed, keysJustReleased, inputActive,
                 timers, sprites, enemyCursor, overlapAtStart, sceneVars, managerVars>>
  /\ UNCHANGED auxVars

\* a keyup event for a key that is held
KeyUp(k) ==
  /\ enginePc = "idle"
  /\ inputActive
  /\ keys[k] = "down"
  /\ keys' = [keys EXCEPT ![k] = "up"]
  /\ UNCHANGED <<gameData, callbackVars, stops, running, rafPending, enginePc, frames, deltaTime,
                 progressVars, activeScene, keysPrevious, keysJustPressed,
                 keysJustReleased, inputActive, timers, restartHandlers, sprites,
                 enemyCursor, levelCompleteLogs, entitiesDestroyed, overlapAtStart,
                 sceneVars, managerVars>>
  /\ UNCHANGED auxVars

\* a click on the document
Click ==
  /\ enginePc = "idle"
  /\ IF restartHandlers > 0 THEN RestartHandler ELSE NoRestart
  /\ UNCHANGED <<gameData, callbackVars, stops, running, rafPending, enginePc, frames, deltaTime,
                 inputVars, timers, sprites, enemyCursor, overlapAtStart, sceneVars, managerVars>>
  /\ UNCHANGED auxVars

\* preloadAssets() resumes after its await and creates the configured sprites
SpritesCreated ==
  /\ enginePc = "idle"
  /\ sprites = <<>>
  /\ gameData.sprites # <<>>
  /\ sprites' = [i \in 1..Len(gameData.sprites) |->
                   [frames |-> gameData.sprites[i].frames,
                    frameTime |-> gameData.sprites[i].frameTime,
                    loop |-> gameData.sprites[i].loop,
                    currentFrame |-> 0,
                    animationTime |-> 0]]
  /\ UNCHANGED <<gameData, callbackVars, stops, running, rafPending, enginePc, frames, deltaTime,
                 progressVars, activeScene, inputVars, timers, restartHandlers,
                 enemyCursor, levelCompleteLogs, entitiesDestroyed, overlapAtStart,
                 sceneVars, managerVars>>
  /\ UNCHANGED auxVars

\* new GameEngine(gameData) and initialize(canvas): the default scene is
\* created and initializeEntities() loads level 0
Init ==
  /\ SceneConstructed
  /\ gameData \in GameDatas
  /\ running = FALSE
  /\ rafPending = 0
  /\ enginePc = "idle"
  /\ frames = 0
  /\ stops = 0
  /\ onStartCalls = 0
  /\ onStopCalls = 0
  /\ deltaTime = 0
  /\ levelTransitioning = FALSE
  /\ gameCompleted = FALSE
  /\ currentLevelIndex = 0
  /\ score = 0
  /\ collectedItems = 0
  /\ totalCollectibles = Len(gameData.collectibles)
  /\ activeScene = LevelEntities(gameData, 0)
  /\ keys = [k \in Keys |-> "none"]
  /\ keysPrevious = {}
  /\ keysJustPressed = {}
  /\ keysJustReleased = {}
  /\ inputActive = FALSE
  /\ timers = <<>>
  /\ restartHandlers = 0
  /\ sprites = <<>>
  /\ enemyCursor = 0
  /\ levelCompleteLogs = 0
  /\ entitiesDestroyed = 0
  /\ overlapAtStart = {}
  /\ ManagersConstructed
  /\ audioAssets = {}
  /\ AuxIdle

Next ==
  \/ Start
  \/ Stop
  \/ AnimationFrame
  \/ UpdateSkipped
  \/ UpdateInput
  \/ UpdateScene
  \/ UpdatePlayer
  \/ UpdateCollectibles
  \/ UpdateEnemyRule
  \/ UpdateBounds
  \/ UpdateAI
  \/ Render
  \/ TransitionTimer
  \/ \E k \in Keys : KeyDown(k)
  \/ \E k \in Keys : KeyUp(k)
  \/ Click
  \/ SpritesCreated

Spec == Init /\ [][Next]_vars

\* the positions of a tick
TickPositions ==
  {"idle", "update", "scene", "rules", "collect", "enemy", "bounds", "ai", "render"}

\* run to completion: a tick that has begun moves on to its next position
TickRuns ==
  /\ enginePc # "idle"
  /\ enginePc' \in TickPositions
  /\ enginePc' # enginePc

\* the engine with a fair frame loop: the browser calls a requested frame
\* callback, and a tick runs to its end; the completion of the asset preload
\* (SpritesCreated), the timers and the user's events may never happen
SpecLoop ==
  Init /\ [][Next]_vars /\ WF_vars(AnimationFrame) /\ WF_enginePc(TickRuns)

-----------------------------------------------------------------------------
(***************************************************************************)
(* AssetManager and SoundManager: loads in flight, their completions and  *)
(* GameEngine.dispose().                                                   *)
(***************************************************************************)
MaxCalls == 3       \* loadAsset calls

AssetTypes == {"image", "spritesheet", "json"}

\* what loadAssetData stores in asset.data for a type
DataOf(type) ==
  CASE type = "image" -> "image"
    [] type = "spritesheet" -> "sheet"
    [] OTHER -> "json"

\* the promises of the loadAsset calls that wait for the load of id settle
SettleCalls(cs, id, outcome, loaded) ==
  [i \in 1..Len(cs) |->
     IF cs[i].id = id /\ cs[i].outcome = "pending"
     THEN [cs[i] EXCEPT !.outcome = outcome, !.loaded = loaded]
     ELSE cs[i]]

\* loadAsset(id, url, {type}) with the table check removed: every call makes
\* a new record and starts a load
LoadAsset_NoTableCheck(id, type) ==
  /\ ~managersDisposed
  /\ Len(calls) < MaxCalls
  /\ assets' = assets \cup {id}
  /\ assetObjs' = [assetObjs EXCEPT ![id] =
                     [type |-> type, loaded |-> FALSE, error |-> "", data |-> "null"]]
  /\ loadStage' = [loadStage EXCEPT ![id] =
                     IF type = "spritesheet" THEN "json" ELSE "data"]
  /\ fetches' = [fetches EXCEPT ![id] = @ + 1]
  /\ loadPromises' = loadPromises \cup {id}
  /\ calls' = Append(calls, [id |-> id, outcome |-> "pending", loaded |-> FALSE])
  /\ UNCHANGED <<audioVars, managersDisposed, unhandledRejections, lastDraw, gameVars,
                 sceneVars>>
  /\ UNCHANGED auxVars

\* loadAsset(id, url, {type}): a record in the table is returned as it is; an
\* entry of loadPromises is returned; else the record is made and stored
\* with loaded = false, loadAssetData starts its first request and the
\* promise is stored
LoadAsset(id, type) ==
  /\ ~managersDisposed
  /\ Len(calls) < MaxCalls
  /\ IF id \in assets
     THEN /\ calls' = Append(calls, [id |-> id, outcome |-> "resolved",
                                     loaded |-> assetObjs[id].loaded])
          /\ UNCHANGED <<assets, assetObjs, loadPromises, loadStage, fetches>>
     ELSE IF id \in loadPromises
     THEN /\ calls' = Append(calls, [id |-> id, outcome |-> "pending",
                                     loaded |-> FALSE])
          /\ UNCHANGED <<assets, assetObjs, loadPromises, loadStage, fetches>>
     ELSE /\ assets' = assets \cup {id}
          /\ assetObjs' = [assetObjs EXCEPT ![id] =
                             [type |-> type, loaded |-> FALSE, error |-> "",
                              data |-> "null"]]
          /\ loadStage' = [loadStage EXCEPT ![id] =
                             IF type = "spritesheet" THEN "json" ELSE "data"]
          /\ fetches' = [fetches EXCEPT ![id] = @ + 1]
          /\ loadPromises' = loadPromises \cup {id}
          /\ calls' = Append(calls, [id |-> id, outcome |-> "pending",
                                     loaded |-> FALSE])
  /\ UNCHANGED <<audioVars, managersDisposed, unhandledRejections, lastDraw, gameVars,
                 sceneVars>>
  /\ UNCHANGED auxVars

\* loadAssetData of a spritesheet: the JSON has arrived, the request for the
\* image starts
SheetJsonLoaded(id) ==
  /\ loadStage[id] = "json"
  /\ loadStage' = [loadStage EXCEPT ![id] = "data"]
  /\ UNCHANGED <<assets, assetObjs, loadPromises, fetches, calls, audioVars,
                 managersDisposed, unhandledRejections, lastDraw, gameVars,
                 sceneVars>>
  /\ UNCHANGED auxVars

\* a failed load that marks the record loaded all the same
LoadFails_MarksLoaded(id) ==
  /\ loadStage[id] \in {"json", "data"}
  /\ assetObjs' = [assetObjs EXCEPT ![id].error = "load failed", ![id].loaded = TRUE]
  /\ assets' = assets \cup {id}
  /\ loadStage' = [loadStage EXCEPT ![id] = "settled"]
  /\ loadPromises' = loadPromises \ {id}
  /\ calls' = SettleCalls(calls, id, "rejected", FALSE)
  /\ UNCHANGED <<fetches, audioVars, managersDisposed, unhandledRejections,
                 lastDraw, gameVars,
                 sceneVars>>
  /\ UNCHANGED auxVars

\* loadAssetData: the last request has delivered; data and loaded are set,
\* the record is put into the table, and loadAsset's continuation deletes the
\* promise and returns the record
LoadSucceeds(id) ==
  /\ loadStage[id] = "data"
  /\ assetObjs' = [assetObjs EXCEPT ![id].loaded = TRUE,
                                    ![id].data = DataOf(assetObjs[id].type)]
  /\ assets' = assets \cup {id}
  /\ loadStage' = [loadStage EXCEPT ![id] = "settled"]
  /\ loadPromises' = loadPromises \ {id}
  /\ calls' = SettleCalls(calls, id, "resolved", TRUE)
  /\ UNCHANGED <<fetches, audioVars, managersDisposed, unhandledRejections,
                 lastDraw, gameVars,
                 sceneVars>>
  /\ UNCHANGED auxVars

\* loadAssetData: a request has failed; the catch sets error, puts the
\* record into the table and rethrows, and loadAsset's catch deletes the
\* promise and rethrows to the caller
LoadFails(id) ==
  /\ loadStage[id] \in {"json", "data"}
  /\ assetObjs' = [assetObjs EXCEPT ![id].error = "load failed"]
  /\ assets' = assets \cup {id}
  /\ loadStage' = [loadStage EXCEPT ![id] = "settled"]
  /\ loadPromises' = loadPromises \ {id}
  /\ calls' = SettleCalls(calls, id, "rejected", FALSE)
  /\ UNCHANGED <<fetches, audioVars, managersDisposed, unhandledRejections,
                 lastDraw, gameVars,
                 sceneVars>>
  /\ UNCHANGED auxVars

\* getImage(id): the data of a loaded image record, else null
GetImage(id) ==
  IF id \in assets /\ assetObjs[id].loaded /\ assetObjs[id].type = "image"
  THEN assetObjs[id].data
  ELSE "null"

\* getJson(id): the data of a loaded json record, else null
GetJson(id) ==
  IF id \in assets /\ assetObjs[id].loaded /\ assetObjs[id].type = "json"
  THEN assetObjs[id].data
  ELSE "null"

\* createSprite(id, assetId): false unless the record is loaded and is an
\* image or a spritesheet
CanCreateSprite(assetId) ==
  /\ assetId \in assets
  /\ assetObjs[assetId].loaded
  /\ assetObjs[assetId].type \in {"image", "spritesheet"}

\* SoundManager.initialize(): nothing when there is a context; else the
\* audio context and the shared gain node are created, the gain at the
\* master volume
InitializeContext ==
  IF context
  THEN UNCHANGED <<context, gainValue>>
  ELSE context' = TRUE /\ gainValue' = masterVolume

\* the source nodes no longer play after stop(); the ended event of a node
\* that played is queued
StopAll(vs) ==
  [i \in 1..Len(vs) |->
     IF vs[i].playing
     THEN [vs[i] EXCEPT !.playing = FALSE, !.endedQueued = TRUE]
     ELSE vs[i]]

\* loadSound(id, url): without a context initialize() is called; the
\* record is put into the table with loaded = false and the fetch starts
StartLoadSound(id) ==
  /\ InitializeContext
  /\ sounds' = sounds \cup {id}
  /\ soundStage' = [soundStage EXCEPT ![id] = "fetching"]

\* preloadAudioAssets(), called by initialize() and not awaited: the effects
\* are preloaded first, then the music
PreloadAudio ==
  /\ ~managersDisposed
  /\ audioPc = "none"
  /\ IF "effects" \in audioAssets
     THEN StartLoadSound(EffectId) /\ audioPc' = "effects"
     ELSE IF "music" \in audioAssets
     THEN StartLoadSound(MusicId) /\ audioPc' = "music"
     ELSE audioPc' = "done" /\ UNCHANGED <<sounds, soundStage, context, gainValue>>
  /\ UNCHANGED <<audioAssets, assetVars, managersDisposed, unhandledRejections,
                 lastDraw, gameVars,
                 sceneVars>>
  /\ UNCHANGED <<gestures, masterVolume, muted, now, voices, activeSounds,
                 backgroundMusic, backgroundMusicId, otherVars>>

\* loadSound(id) has returned with the given stage and table: preloadSounds
\* resolves and preloadAudioAssets goes on after its await. After the
\* effects it calls this.soundManager.preloadSounds for the music, which
\* throws when dispose() has set the field to null; nothing catches it
AudioContinues(id, stage, table) ==
  IF audioPc = "effects" /\ id = EffectId /\ "music" \in audioAssets
  THEN IF managersDisposed
       THEN /\ audioPc' = "threw"
            /\ unhandledRejections' = unhandledRejections + 1
            /\ sounds' = table
            /\ soundStage' = [soundStage EXCEPT ![id] = stage]
       ELSE /\ audioPc' = "music"
            /\ sounds' = table \cup {MusicId}
            /\ soundStage' = [soundStage EXCEPT ![id] = stage,
                                                ![MusicId] = "fetching"]
            /\ UNCHANGED unhandledRejections
  ELSE /\ audioPc' = "done"
       /\ sounds' = table
       /\ soundStage' = [soundStage EXCEPT ![id] = stage]
       /\ UNCHANGED unhandledRejections

\* loadSound: the response and its array buffer have arrived, or the fetch
\* has failed. decodeAudioData is called on this.context, which dispose()
\* has set to null; the catch of loadSound returns false
SoundFetched(id, ok) ==
  /\ soundStage[id] = "fetching"
  /\ IF ok /\ ~managersDisposed
     THEN /\ soundStage' = [soundStage EXCEPT ![id] = "decoding"]
          /\ UNCHANGED <<sounds, audioPc, unhandledRejections>>
     ELSE AudioContinues(id, "failed", sounds)
  /\ UNCHANGED <<audioAssets, assetVars, managersDisposed, lastDraw, gameVars,
                 sceneVars>>
  /\ UNCHANGED <<playbackVars, otherVars>>

\* loadSound: the buffer is decoded, loaded is set and the record is put
\* into the table; or the decoding has failed
SoundDecoded(id, ok) ==
  /\ soundStage[id] = "decoding"
  /\ IF ok
     THEN AudioContinues(id, "loaded", sounds \cup {id})
     ELSE AudioContinues(id, "failed", sounds)
  /\ UNCHANGED <<audioAssets, assetVars, managersDisposed, lastDraw, gameVars,
                 sceneVars>>
  /\ UNCHANGED <<playbackVars, otherVars>>

\* GameEngine.dispose(): stop(), the scenes are cleared and dropped, the
\* managers are disposed (their tables cleared, the audio context dropped)
\* and the engine's fields are set to null. Requests in flight are not
\* cancelled
Dispose ==
  /\ ~managersDisposed
  /\ managersDisposed' = TRUE
  /\ running' = FALSE
  /\ inputActive' = FALSE
  /\ onStopCalls' = onStopCalls + 1
  /\ activeScene' = <<>>
  /\ sprites' = <<>>
  /\ assets' = {}
  /\ loadPromises' = {}
  /\ sounds' = {}
  /\ UNCHANGED <<assetObjs, loadStage, fetches, calls, soundStage, audioAssets,
                 audioPc, unhandledRejections, gameData, rafPending, enginePc,
                 frames, stops, onStartCalls, deltaTime, progressVars, keys,
                 keysPrevious, keysJustPressed, keysJustReleased, timers,
                 restartHandlers, enemyCursor, levelCompleteLogs,
                 entitiesDestroyed, overlapAtStart, lastDraw, sceneVars>>
  /\ voices' = StopAll(voices)
  /\ activeSounds' = {}
  /\ backgroundMusic' = 0
  /\ backgroundMusicId' = "null"
  /\ context' = FALSE
  /\ UNCHANGED <<gestures, gainValue, masterVolume, muted, now, otherVars>>

MaxGestures == 1    \* user gestures in a run

nonPlaybackVars == <<sceneVars, engineVars, otherVars>>

\* a click, keydown or touchstart on the document; onFirstInteraction, once
\* preloadAudioAssets has registered it, calls soundManager?.initialize()
\* (the field is null after dispose())
UserGesture ==
  /\ gestures < MaxGestures
  /\ gestures' = gestures + 1
  /\ IF audioPc # "none" /\ audioAssets # {} /\ ~managersDisposed
     THEN InitializeContext
     ELSE UNCHANGED <<context, gainValue>>
  /\ UNCHANGED <<masterVolume, muted, now, voices, activeSounds,
                 backgroundMusic, backgroundMusicId, nonPlaybackVars>>

\* the managers of an engine whose game declares some audio; the loop and
\* the levels are left out
InitAssets ==
  /\ SceneConstructed
  /\ NoGame
  /\ ManagersConstructed
  /\ audioAssets \in SUBSET {"effects", "music"}
  /\ AuxIdle

NextAssets ==
  \/ \E id \in AssetIds, type \in AssetTypes : LoadAsset(id, type)
  \/ \E id \in AssetIds : SheetJsonLoaded(id)
  \/ \E id \in AssetIds : LoadSucceeds(id)
  \/ \E id \in AssetIds : LoadFails(id)
  \/ PreloadAudio
  \/ \E id \in SoundIds, ok \in BOOLEAN : SoundFetched(id, ok)
  \/ \E id \in SoundIds, ok \in BOOLEAN : SoundDecoded(id, ok)
  \/ UserGesture
  \/ Dispose

SpecAssets == InitAssets /\ [][NextAssets]_vars

-----------------------------------------------------------------------------
(***************************************************************************)
(* AssetManager: sprites, their animation clocks and drawSprite.  Times   *)
(* are counted in units of the default frame time (0.1 s).                 *)
(***************************************************************************)
MaxSprites == 2     \* entries of the sprite table

DefaultFrameTime == 1

\* frames of the JSON of a loaded spritesheet
SheetFrames == 2

\* the ids drawn, with the words they are made of
IdWords ==
  [player |-> <<"player">>,
   tiles |-> <<"tiles">>,
   enemy_player |-> <<"enemy", "player">>,
   big_enemy |-> <<"big", "enemy">>,
   platform_collectible |-> <<"platform", "collectible">>,
   platform |-> <<"platform">>]

SpriteIds == DOMAIN IdWords

\* the ids sprites are made under
SpriteKeys == {"player", "big_enemy"}

\* spriteId.includes(word)
Includes(id, word) == \E i \in 1..Len(IdWords[id]) : IdWords[id][i] = word

\* the options given to createSprite: frames (a count, 0 when absent),
\* frameTime (0 when absent) and loop ("undefined" when absent)
SpriteOptions ==
  {[frames |-> 0, frameTime |-> 0, loop |-> "undefined"],
   [frames |-> 3, frameTime |-> 2, loop |-> "false"],
   [frames |-> 3, frameTime |-> 2, loop |-> "true"]}

\* the engine's variables other than the sprite table
nonSpriteVars == <<gameData, running, rafPending, enginePc, frames, stops, callbackVars,
                   deltaTime, progressVars, activeScene, inputVars, timers,
                   restartHandlers, enemyCursor, levelCompleteLogs,
                   entitiesDestroyed, overlapAtStart>>

\* index of the sprite stored under id, 0 when there is none
SpriteIndex(id) ==
  IF \E i \in 1..Len(sprites) : sprites[i].id = id
  THEN CHOOSE i \in 1..Len(sprites) : sprites[i].id = id
  ELSE 0

\* createSprite(id, assetId, options): false unless the asset is a loaded
\* image or spritesheet and there is a frame; else the sprite starts at
\* frame 0 with its clock at 0 and is stored under id
CreateSprite(id, assetId, options) ==
  /\ SpriteIndex(id) # 0 \/ Len(sprites) < MaxSprites
  /\ LET count == IF assetObjs[assetId].type = "spritesheet"
                  THEN OrDefault(options.frames, SheetFrames)
                  ELSE 1
         sprite == [id |-> id,
                    frames |-> count,
                    currentFrame |-> 0,
                    frameTime |-> OrDefault(options.frameTime, DefaultFrameTime),
                    animationTime |-> 0,
                    loop |-> IF options.loop # "undefined" THEN options.loop = "true"
                             ELSE TRUE]
     IN IF ~CanCreateSprite(assetId) \/ count = 0
        THEN UNCHANGED sprites
        ELSE sprites' = IF SpriteIndex(id) # 0
                        THEN [sprites EXCEPT ![SpriteIndex(id)] = sprite]
                        ELSE Append(sprites, sprite)
  /\ UNCHANGED <<managerVars, nonSpriteVars, sceneVars>>
  /\ UNCHANGED auxVars

\* updateSprites(deltaTime)
UpdateSprites(dt) ==
  /\ sprites # <<>>
  /\ sprites' = [i \in 1..Len(sprites) |-> UpdateSprite(sprites[i], dt)]
  /\ UNCHANGED <<managerVars, nonSpriteVars, sceneVars>>
  /\ UNCHANGED auxVars

\* drawFallbackRect: the colour by the first word the id includes
FallbackColor(id) ==
  IF Includes(id, "player") THEN "#FF00FF"
  ELSE IF Includes(id, "enemy") THEN "#FF0000"
  ELSE IF Includes(id, "collectible") THEN "#FFFF00"
  ELSE IF Includes(id, "platform") THEN "#555555"
  ELSE "#FF00FF"

\* what drawFallbackRect leaves on the canvas
Placeholder(id) ==
  [id |-> id, drawn |-> "placeholder", color |-> FallbackColor(id), threw |-> FALSE]

\* drawSprite with the try/catch around the drawImage calls removed: an
\* error of the canvas reaches the caller
DrawSprite_NoCatch(id, drawThrows) ==
  /\ lastDraw' =
       IF SpriteIndex(id) = 0
       THEN IF id \in AssetIds /\ GetImage(id) # "null"
            THEN [id |-> id, drawn |-> IF drawThrows THEN "none" ELSE "image",
                  color |-> "", threw |-> drawThrows]
            ELSE Placeholder(id)
       ELSE IF sprites[SpriteIndex(id)].currentFrame >= sprites[SpriteIndex(id)].frames
            THEN Placeholder(id)
            ELSE [id |-> id, drawn |-> IF drawThrows THEN "none" ELSE "frame",
                  color |-> "", threw |-> drawThrows]
  /\ UNCHANGED <<assetVars, audioVars, managersDisposed, unhandledRejections,
                 gameVars, sceneVars>>
  /\ UNCHANGED auxVars

\* drawSprite(ctx, id, ...): without a sprite the image loaded under the id
\* is drawn, else the placeholder; with a sprite its current frame is drawn,
\* or the placeholder when there is no such frame; an error thrown by the
\* canvas while drawing is caught and the placeholder is drawn
DrawSprite(id, drawThrows) ==
  /\ lastDraw' =
       IF SpriteIndex(id) = 0
       THEN IF id \in AssetIds /\ GetImage(id) # "null"
            THEN IF drawThrows THEN Placeholder(id)
                 ELSE [id |-> id, drawn |-> "image", color |-> "", threw |-> FALSE]
            ELSE Placeholder(id)
       ELSE IF sprites[SpriteIndex(id)].currentFrame >= sprites[SpriteIndex(id)].frames
            THEN Placeholder(id)
            ELSE IF drawThrows THEN Placeholder(id)
                 ELSE [id |-> id, drawn |-> "frame", color |-> "", threw |-> FALSE]
  /\ UNCHANGED <<assetVars, audioVars, managersDisposed, unhandledRejections,
                 gameVars, sceneVars>>
  /\ UNCHANGED auxVars

\* the preload requests an asset that has no record yet
RequestAsset(id, type) ==
  /\ id \notin assets
  /\ LoadAsset(id, type)

\* an AssetManager in use: each asset is requested once, sprites are made of
\* the assets, animated and drawn
InitSprites ==
  /\ SceneConstructed
  /\ NoGame
  /\ ManagersConstructed
  /\ audioAssets = {}
  /\ AuxIdle

NextSprites ==
  \/ \E id \in AssetIds, type \in {"image", "spritesheet"} : RequestAsset(id, type)
  \/ \E id \in AssetIds : SheetJsonLoaded(id)
  \/ \E id \in AssetIds : LoadSucceeds(id)
  \/ \E id \in AssetIds : LoadFails(id)
  \/ \E id \in SpriteKeys, assetId \in AssetIds, options \in SpriteOptions :
       CreateSprite(id, assetId, options)
  \/ \E dt \in 0..2 : UpdateSprites(dt)
  \/ \E id \in SpriteIds, drawThrows \in BOOLEAN : DrawSprite(id, drawThrows)

SpecSprites == InitSprites /\ [][NextSprites]_vars

-----------------------------------------------------------------------------
(* Properties of the Scene *)

IsPrefix(s, t) == Len(s) <= Len(t) /\ SubSeq(t, 1, Len(s)) = s

\* C1: while a Scene.update pass is in progress no addEntity/removeEntity call
\* changes the entity map (the requests are only appended to the pending
\* buffers), and when Scene.update has returned isUpdating is false and both
\* pending buffers are empty.
C1_MutationBufferedDuringPass ==
  /\ [][(isUpdating /\ isUpdating') =>
          /\ entities' = entities
          /\ IsPrefix(entitiesToAdd, entitiesToAdd')
          /\ IsPrefix(entitiesToRemove, entitiesToRemove')]_vars
  /\ [](scenePc = "idle" =>
          (~isUpdating /\ entitiesToAdd = <<>> /\ entitiesToRemove = <<>>))

\* a pass in which a hook has requested an add and the removal of a mapped entity
C1_Witness ==
  /\ isUpdating
  /\ entitiesToAdd # <<>>
  /\ entitiesToRemove # <<>>
  /\ MapGet(entities, entitiesToRemove[1]) # NoObj

\* C2: an entity whose removal another entity's update hook requested stays in
\* the scene for the rest of the pass (and its own update still runs when it
\* comes later and is active); after the pass it is absent and its destroy()
\* has run exactly once, however often the removal was requested.
C2_RemovedAndDestroyedOnce ==
  /\ scenePc = "pass" => removalTargets \subseteq MapValues(entities)
  /\ (scenePc = "pass" /\ cursor = Len(entities)) =>
        \A t \in removalTargets : objs[t].active => t \in visited
  /\ scenePc = "idle" =>
        \A t \in removalTargets :
          /\ t \notin MapValues(entities)
          /\ objs[t].destroyCalls = 1

-----------------------------------------------------------------------------
(* Properties of the GameEngine *)

\* the step is the timer callback of goToNextLevel
TimerStep == timers # <<>> /\ timers' = Tail(timers)

\* the step runs restartHandler
RestartStep == restartHandlers > 0 /\ (Click \/ \E k \in Keys : KeyDown(k))

\* the exit check of the tick in progress calls goToNextLevel
ExitStep ==
  /\ enginePc = "bounds"
  /\ ReachedExit(FallRule(activeScene[PlayerIndex(activeScene)], gameData), gameData)

\* C3: loadLevel for an index that has no level record abandons the load and
\* leaves the entities of the active scene exactly as they were.
C3_AbandonedLoadKeepsEntities ==
  [][(TimerStep /\ ~LevelAt(gameData, Head(timers)).exists)
       => activeScene' = activeScene]_vars

\* what C4 calls gameplay state: entities (positions, velocities, active
\* flags, platform timers), score, collected count, input edge state and the
\* sprite animation clocks
gameplayState == <<activeScene, score, collectedItems, keysPrevious,
                   keysJustPressed, keysJustReleased, sprites>>

\* C4: a tick that runs while levelTransitioning is true changes no gameplay
\* state, from the frame callback through update to the end of render, and
\* its update is followed by the render step.
C4_TransitionFreezesGameplay ==
  [][(levelTransitioning /\ enginePc \in {"idle", "update", "render"}
        /\ enginePc' # enginePc)
       => /\ gameplayState' = gameplayState
          /\ enginePc = "update" => enginePc' = "render"
          /\ enginePc = "render" => enginePc' = "idle"]_vars

\* a key went down during a transition and the tick that followed reached
\* render without taking it into the edge state
C4_Witness ==
  /\ levelTransitioning
  /\ timers # <<>>
  /\ enginePc = "render"
  /\ \E k \in Keys : keys[k] = "down" /\ k \notin keysPrevious

\* C5: goToNextLevel with an existing next level sets levelTransitioning and
\* schedules one load; when the timer fires the level index is one higher,
\* that level's entities are in the scene and the flag is false; while the
\* flag is true no second advance is scheduled.
C5_OneAdvancePerExit ==
  /\ [][(ExitStep /\ ~levelTransitioning
           /\ LevelAt(gameData, currentLevelIndex + 1).exists)
          => (levelTransitioning' /\ timers' = <<currentLevelIndex + 1>>)]_vars
  /\ [][(TimerStep /\ LevelAt(gameData, currentLevelIndex + 1).exists)
          => /\ currentLevelIndex' = currentLevelIndex + 1
             /\ activeScene' = LevelEntities(gameData, currentLevelIndex + 1)
             /\ ~levelTransitioning'
             /\ timers' = <<>>]_vars
  /\ [](timers # <<>> => (levelTransitioning /\ timers = <<currentLevelIndex + 1>>))
  /\ [][(levelTransitioning /\ ~TimerStep) => currentLevelIndex' \in {currentLevelIndex, 0}]_vars

\* the second level has been loaded by the timer and play has resumed
C5_Witness ==
  /\ currentLevelIndex = 1
  /\ ~levelTransitioning
  /\ timers = <<>>
  /\ activeScene # <<>>
  /\ enginePc = "collect"

\* C6: goToNextLevel on the last level marks the run complete and keeps
\* levelTransitioning set until a key press or click; that event resets level
\* index, score and collected count to 0 and clears both flags; key presses
\* and clicks after it reset nothing.
C6_CompleteUntilRestart ==
  /\ [][(ExitStep /\ ~levelTransitioning
           /\ currentLevelIndex + 1 >= Len(Levels(gameData)))
          => (gameCompleted' /\ levelTransitioning' /\ restartHandlers' = 1)]_vars
  /\ [][(gameCompleted /\ ~(Click \/ \E k \in Keys : KeyDown(k)))
          => (gameCompleted' /\ levelTransitioning')]_vars
  /\ [][(gameCompleted /\ (Click \/ \E k \in Keys : KeyDown(k)))
          => /\ currentLevelIndex' = 0
             /\ score' = 0
             /\ collectedItems' = 0
             /\ ~gameCompleted'
             /\ ~levelTransitioning'
             /\ activeScene' = LevelEntities(gameData, 0)]_vars
  /\ [][(~gameCompleted /\ (Click \/ \E k \in Keys : KeyDown(k)))
          => UNCHANGED <<progressVars, activeScene>>]_vars

\* the run was completed with points scored, restarted by an event, and a key
\* is held in the restarted game
C6_Witness ==
  /\ Len(Levels(gameData)) = 1
  /\ entitiesDestroyed > 0
  /\ ~gameCompleted
  /\ ~levelTransitioning
  /\ currentLevelIndex = 0
  /\ restartHandlers = 0
  /\ enginePc = "rules"
  /\ \E k \in Keys : keys[k] = "down"

\* C7: every loadLevel leaves the collected count at 0 and the collectible
\* total at that of the loaded level, and the load of a level transition
\* keeps the score.
C7_LoadResetsLevelCounters ==
  [][(TimerStep \/ RestartStep)
       => /\ collectedItems' = 0
          /\ totalCollectibles' = Len(gameData.collectibles)
          /\ TimerStep => score' = score]_vars

\* C8: a collectible that was active and overlapped the player when the tick
\* began is collected by the tick's rule pass: inactive, invisible, the
\* collected count one higher and the score higher by its value.
C8_OverlapCollectedInOneTick ==
  [][(enginePc = "collect" /\ enginePc' # "collect")
       => \A c \in overlapAtStart :
            /\ ~activeScene'[c].active
            /\ ~activeScene'[c].visible
            /\ collectedItems' >= collectedItems + 1
            /\ score' >= score + activeScene[c].data.value]_vars

\* C9: level completion is reported at most once between two loads of a level.
C9_CompletionOncePerLevel == levelCompleteLogs <= 1

\* C10: the enemy rule for the enemy the pass is at: when the player overlaps
\* it while it is active, either the player is falling with its bottom above
\* the enemy's middle, and then the enemy is inactive and invisible, the
\* player's velocityY is -7 and the score is 50 higher; or the enemy stays
\* active, the score is unchanged and the player is at its spawn point with
\* both velocities 0.
C10_EnemyRule ==
  [][(enginePc = "enemy")
       => LET pi == PlayerIndex(activeScene)
              ei == EntitiesByTag(activeScene, "enemy")[enemyCursor + 1]
              p == activeScene[pi]
              e == activeScene[ei]
              overlap == /\ p.x < e.x + e.width
                         /\ p.x + p.width > e.x
                         /\ p.y < e.y + e.height
                         /\ p.y + p.height > e.y
          IN (e.active /\ overlap)
               => IF p.velocityY > 0 /\ 2 * (p.y + p.height) < 2 * e.y + e.height
                  THEN /\ ~activeScene'[ei].active
                       /\ ~activeScene'[ei].visible
                       /\ activeScene'[pi].velocityY = 0 - 7
                       /\ score' = score + 50
                  ELSE /\ activeScene'[ei].active
                       /\ score' = score
                       /\ activeScene'[pi].x = OrDefault(gameData.player.startX, 100)
                       /\ activeScene'[pi].y = OrDefault(gameData.player.startY, 100)
                       /\ activeScene'[pi].velocityX = 0
                       /\ activeScene'[pi].velocityY = 0]_vars

\* the player has just landed on the enemy
C10_Witness ==
  /\ enginePc = "bounds"
  /\ \E i \in 1..Len(activeScene) :
       /\ "enemy" \in activeScene[i].tags
       /\ ~activeScene[i].active
       /\ ~activeScene[i].visible
  /\ PlayerIndex(activeScene) # 0
  /\ activeScene[PlayerIndex(activeScene)].velocityY = 0 - 7
  /\ score = 50

\* the order of the steps of one tick, as the pairs of positions a step joins
TickOrder ==
  {<<"idle", "update">>, <<"update", "scene">>, <<"update", "render">>,
   <<"scene", "rules">>, <<"rules", "collect">>, <<"rules", "ai">>,
   <<"collect", "enemy">>, <<"collect", "bounds">>, <<"enemy", "bounds">>,
   <<"bounds", "ai">>, <<"ai", "render">>, <<"render", "idle">>}

\* C11: in a tick that is not suspended the steps run in the order
\* Input.update, Scene.update, rule pass, render: the positions of the tick
\* follow that order, the step that leaves "update" for "scene" advances the
\* input edge state to the keys held, and from Scene.update to the end of
\* the rule pass the edge state is the one advanced in this tick.
C11_TickOrderHolds ==
  /\ [][enginePc' # enginePc => <<enginePc, enginePc'>> \in TickOrder]_vars
  /\ [][(enginePc = "update" /\ enginePc' = "scene")
          => /\ keysPrevious' = Inputs
             /\ keysJustPressed' = Inputs \ keysPrevious
             /\ keysJustReleased' = {k \in keysPrevious : keys[k] = "up"}]_vars
  /\ [](enginePc \in {"scene", "rules", "collect", "enemy", "bounds", "ai"}
          => keysPrevious = Inputs)

\* the rule pass has given the player the speed of a key whose press
\* Input.update recorded in this tick
C11_Witness ==
  /\ enginePc = "collect"
  /\ keysJustPressed = {"ArrowRight"}
  /\ keysPrevious = {"ArrowRight"}
  /\ activeScene[PlayerIndex(activeScene)].velocityX
       = activeScene[PlayerIndex(activeScene)].data.maxSpeed

\* C12: while the engine runs at most one requested frame callback is
\* pending, a start() of a running engine changes nothing, and onStart has
\* been called once per start() that found the engine stopped.
C12_OneLiveChain ==
  /\ [](running => rafPending <= 1)
  /\ [][(running /\ running' /\ enginePc = "idle")
          => onStartCalls' = onStartCalls]_vars
  /\ [](onStartCalls <= stops + 1)

\* C13: while the engine is stopped no tick is in progress and none begins:
\* a frame callback requested before stop() leaves the frame count and the
\* tick position alone; the stop() step itself clears the running flag,
\* detaches the input listeners and calls onStop once.
C13_StoppedLoopIsIdle ==
  /\ [](~running => enginePc = "idle")
  /\ [][(~running /\ ~running') => (frames' = frames /\ enginePc' = "idle")]_vars
  /\ [][stops' # stops
          => (~running' /\ ~inputActive' /\ onStopCalls' = onStopCalls + 1)]_vars

\* the callback requested by the first tick has run after stop() and has
\* executed nothing
C13_Witness ==
  /\ ~running
  /\ stops = 1
  /\ onStopCalls = 1
  /\ frames = 1
  /\ rafPending = 0
  /\ enginePc = "idle"
  /\ ~levelTransitioning
  /\ LevelAt(gameData, currentLevelIndex).exists

\* a render that threw has left no frame callback requested
LoopDead == running /\ enginePc = "idle" /\ rafPending = 0 /\ RenderThrows

\* C15: before the first tick, and with no sprite of the preload created,
\* the scene holds the entities of level 0; and a running engine goes on
\* ticking up to the frame bound (unless it is stopped for good, or a render
\* threw) whether or not the preload ever completes.
C15_LoopNeverWaitsForLoads ==
  /\ []((frames = 0 /\ sprites = <<>>) => activeScene = LevelEntities(gameData, 0))
  /\ <>[](frames = MaxFrames \/ ~running \/ LoopDead)

\* every tick of the bound has run and rendered while the declared sprites
\* were never created
C15_Witness ==
  /\ running
  /\ frames = MaxFrames
  /\ enginePc = "idle"
  /\ rafPending = 1
  /\ gameData.sprites # <<>>
  /\ sprites = <<>>

\* C14: once dispose() has run, whatever completes afterwards, the scene has
\* no entity, the asset table and the sound table of the disposed managers
\* are empty, and no promise has rejected unhandled.
C14_NothingAfterDispose ==
  managersDisposed
    => /\ activeScene = <<>>
       /\ assets = {}
       /\ sounds = {}
       /\ unhandledRejections = 0

\* C16: no asset id ever has more than one load started, and a step taken
\* while the id has a record in the table or a load in flight starts none.
C16_OneFetchPerId ==
  /\ [](\A id \in AssetIds : fetches[id] <= 1)
  /\ [][\A id \in AssetIds :
          (id \in assets \/ id \in loadPromises \/ loadStage[id] \in {"json", "data"})
            => fetches'[id] = fetches[id]]_vars

\* three calls for one id, the second while the load was in flight and the
\* third after it had delivered, with one load started
C16_Witness ==
  /\ Len(calls) = 3
  /\ \A i \in 1..3 : calls[i].id = "player"
  /\ ~calls[2].loaded
  /\ calls[3].loaded
  /\ loadStage["player"] = "settled"
  /\ fetches["player"] = 1

\* C17: the promise of a loadAsset call is pending as long as the load of
\* its id is in flight, and a promise that has resolved was resolved with a
\* record whose loaded flag was true.
C17_CallsShareTheLoad ==
  \A i \in 1..Len(calls) :
    /\ loadStage[calls[i].id] \in {"json", "data"} => calls[i].outcome = "pending"
    /\ calls[i].outcome = "resolved" => calls[i].loaded

\* the loadAsset call that started the load of id
FirstCall(id) ==
  CHOOSE i \in 1..Len(calls) : calls[i].id = id /\ \A j \in 1..(i - 1) : calls[j].id # id

\* C18: a failing load leaves a non-empty error on the record, loaded false
\* and the promise of the call that started it rejected; a record with an
\* error is never loaded afterwards; and getImage, getJson and createSprite
\* give null or false, and the record holds no data, unless it is loaded.
C18_FailedLoadNeverLoaded ==
  /\ [][\A id \in AssetIds :
          LoadFails(id)
            => /\ assetObjs'[id].error # ""
               /\ ~assetObjs'[id].loaded
               /\ calls'[FirstCall(id)].outcome = "rejected"]_vars
  /\ [](\A id \in AssetIds : assetObjs[id].error # "" => ~assetObjs[id].loaded)
  /\ [](\A id \in AssetIds :
          ~assetObjs[id].loaded
            => /\ assetObjs[id].data = "null"
               /\ GetImage(id) = "null"
               /\ GetJson(id) = "null"
               /\ ~CanCreateSprite(id))

\* the image request of a spritesheet has failed after its JSON had arrived:
\* the record is in the table with an error
C18_Witness ==
  /\ "tiles" \in assets
  /\ assetObjs["tiles"].type = "spritesheet"
  /\ assetObjs["tiles"].error # ""
  /\ loadStage["tiles"] = "settled"
  /\ calls[FirstCall("tiles")].outcome = "rejected"
  /\ Len(calls) = 2
  /\ calls[2] = [id |-> "tiles", outcome |-> "resolved", loaded |-> FALSE]

\* C19: the current frame of every sprite is a frame of the sprite; an
\* updateSprites call never moves a non-looping sprite of several frames
\* back and leaves it at its last frame once it is there; and it moves a
\* looping sprite whose frame time has passed from its last frame to frame 0.
C19_FrameInRange ==
  /\ [](\A i \in 1..Len(sprites) :
          0 <= sprites[i].currentFrame /\ sprites[i].currentFrame < sprites[i].frames)
  /\ [][\A dt \in 0..2 :
          UpdateSprites(dt)
            => \A i \in 1..Len(sprites) :
                 LET a == sprites[i]
                     b == sprites'[i]
                 IN /\ (~a.loop /\ a.frames > 1)
                         => /\ b.currentFrame >= a.currentFrame
                            /\ a.currentFrame = a.frames - 1
                                 => b.currentFrame = a.frames - 1
                    /\ (a.loop /\ a.frames > 1 /\ a.currentFrame = a.frames - 1)
                         => b.currentFrame = IF a.animationTime + dt >= a.frameTime
                                             THEN 0 ELSE a.currentFrame]_vars

\* a non-looping and a looping sprite of three frames are both at their last
\* frame with a clock that the next frame time of 2 will end
C19_Witness ==
  /\ Len(sprites) = 2
  /\ ~sprites[1].loop /\ sprites[1].frames = 3 /\ sprites[1].currentFrame = 2
  /\ sprites[2].loop /\ sprites[2].frames = 3 /\ sprites[2].currentFrame = 2
  /\ sprites[1].animationTime = 1
  /\ sprites[2].animationTime = 1

\* the placeholder colours of the ids drawn: pink for an id with "player",
\* else red with "enemy", else yellow with "collectible", else gray with
\* "platform", else the default pink
PlaceholderColors ==
  [player |-> "#FF00FF",
   enemy_player |-> "#FF00FF",
   big_enemy |-> "#FF0000",
   platform_collectible |-> "#FFFF00",
   platform |-> "#555555",
   tiles |-> "#FF00FF"]

\* an image is loaded under the id
ImageLoaded(id) ==
  /\ id \in AssetIds
  /\ id \in assets
  /\ assetObjs[id].loaded
  /\ assetObjs[id].type = "image"

\* C20: no drawSprite call throws to its caller; without a sprite it draws
\* the image loaded under the id; and without sprite and loaded image, or
\* when the canvas throws while drawing, it draws the placeholder in the
\* colour of the id.
C20_DrawNeverThrows ==
  /\ [](~lastDraw.threw)
  /\ [][\A id \in SpriteIds, drawThrows \in BOOLEAN :
          DrawSprite(id, drawThrows)
            => /\ (SpriteIndex(id) = 0 /\ ImageLoaded(id) /\ ~drawThrows)
                    => lastDraw'.drawn = "image"
               /\ ((SpriteIndex(id) = 0 /\ ~ImageLoaded(id)) \/ drawThrows)
                    => /\ lastDraw'.drawn = "placeholder"
                       /\ lastDraw'.color = PlaceholderColors[id]]_vars

\* the canvas threw while the frame of an existing sprite was drawn, and
\* the red placeholder of an enemy id was drawn instead
C20_Witness ==
  /\ SpriteIndex("big_enemy") # 0
  /\ lastDraw = [id |-> "big_enemy", drawn |-> "placeholder", color |-> "#FF0000",
                 threw |-> FALSE]


-----------------------------------------------------------------------------
(***************************************************************************)
(* SoundManager: playback.  The sounds are loaded by preloadAudioAssets;   *)
(* volumes are counted in tenths.  A source node that stops playing, by    *)
(* itself or through stop(), has its ended event queued; the handler runs  *)
(* as a later task.                                                        *)
(***************************************************************************)
MaxVoices == 3      \* source nodes created in a run
MaxNow == 1         \* milliseconds the clock advances
MaxRandom == 1      \* largest value of Math.floor(Math.random() * 1000) drawn

EffectVolume == 10  \* options of the effects: volume 1.0
MusicVolume == 5    \* options of the music: volume 0.5
DefaultMusicVolume == 5

\* the volume loadSound has stored in the record of the sound
SoundVolume(id) == IF id = MusicId THEN MusicVolume ELSE EffectVolume

\* sounds.get(id) is a record with a buffer
SoundReady(id) == id \in sounds /\ soundStage[id] = "loaded"

NoHandle == [id |-> "", now |-> 0, random |-> 0]

\* a source node that has stopped and whose ended event has been handled:
\* nothing refers to what it played
Finished ==
  [id |-> "", handle |-> NoHandle, music |-> FALSE, loop |-> FALSE,
   volume |-> 0, gain |-> 0, playing |-> FALSE, endedQueued |-> FALSE]

\* `${id}_${Date.now()}_${Math.floor(Math.random() * 1000)}`
InstanceId(id, random) == [id |-> id, now |-> now, random |-> random]

\* source.stop() on the node of the given index
StopSource(vs, i) ==
  IF vs[i].playing
  THEN [vs EXCEPT ![i].playing = FALSE, ![i].endedQueued = TRUE]
  ELSE vs

\* source.stop() on every node of the given indices
StopSources(vs, idx) ==
  [i \in 1..Len(vs) |->
     IF i \in idx /\ vs[i].playing
     THEN [vs[i] EXCEPT !.playing = FALSE, !.endedQueued = TRUE]
     ELSE vs[i]]

\* Map.set(key, source) and Map.delete(key) on activeSounds
TableDelete(table, handle) == {e \in table : e.handle # handle}

TableSet(table, handle, source) ==
  TableDelete(table, handle) \cup {[handle |-> handle, source |-> source]}

\* the gain of the node of a new voice
VoiceGain(volume) == volume * (IF muted THEN 0 ELSE 1)

\* initialize(), called on the sound manager
Initialize ==
  /\ ~context
  /\ InitializeContext
  /\ UNCHANGED <<gestures, masterVolume, muted, now, voices, activeSounds,
                 backgroundMusic, backgroundMusicId, nonPlaybackVars>>

\* a millisecond passes
ClockTick ==
  /\ now < MaxNow
  /\ now' = now + 1
  /\ UNCHANGED <<context, gestures, gainValue, masterVolume, muted, voices,
                 activeSounds, backgroundMusic, backgroundMusicId,
                 nonPlaybackVars>>

\* playSound(id) with Math.random() giving the number: without a context
\* initialize() is called; null is returned for a sound without a buffer;
\* else a source node is created, put into activeSounds under the instance
\* id, and started
PlaySound(id, random) ==
  /\ Len(voices) < MaxVoices
  /\ InitializeContext
  /\ IF SoundReady(id)
     THEN /\ voices' = Append(voices,
               [id |-> id, handle |-> InstanceId(id, random), music |-> FALSE,
                loop |-> FALSE,
                volume |-> OrDefault(SoundVolume(id), FullVolume),
                gain |-> VoiceGain(OrDefault(SoundVolume(id), FullVolume)),
                playing |-> TRUE, endedQueued |-> FALSE])
          /\ activeSounds' =
               TableSet(activeSounds, InstanceId(id, random), Len(voices) + 1)
     ELSE UNCHANGED <<voices, activeSounds>>
  /\ UNCHANGED <<gestures, masterVolume, muted, now, backgroundMusic,
                 backgroundMusicId, nonPlaybackVars>>

\* stopSound(instanceId): false is returned for an id that is not in the
\* table; else the node is stopped and the entry deleted
StopSound(handle) ==
  /\ \E e \in activeSounds : e.handle = handle
  /\ LET source == (CHOOSE e \in activeSounds : e.handle = handle).source
     IN voices' = StopSource(voices, source)
  /\ activeSounds' = TableDelete(activeSounds, handle)
  /\ UNCHANGED <<context, gestures, gainValue, masterVolume, muted, now,
                 backgroundMusic, backgroundMusicId, nonPlaybackVars>>

\* stopAllSounds(): every node of the table is stopped, the table cleared,
\* and the background music stopped and forgotten
StopAllSounds ==
  /\ voices' = StopSources(voices, {e.source : e \in activeSounds}
                                     \cup ({backgroundMusic} \ {0}))
  /\ activeSounds' = {}
  /\ backgroundMusic' = 0
  /\ backgroundMusicId' = IF backgroundMusic # 0 THEN "null"
                                                 ELSE backgroundMusicId
  /\ UNCHANGED <<context, gestures, gainValue, masterVolume, muted, now,
                 nonPlaybackVars>>

\* playBackgroundMusic(id, {loop}): without a context initialize() is
\* called; the node in backgroundMusic is stopped and the field set to null;
\* false is returned for a sound without a buffer; else a source node is
\* created, stored in backgroundMusic with its id, and started
PlayBackgroundMusic(id, loop) ==
  /\ Len(voices) < MaxVoices
  /\ InitializeContext
  /\ LET stopped == IF backgroundMusic # 0
                    THEN StopSource(voices, backgroundMusic)
                    ELSE voices
     IN IF SoundReady(id)
        THEN /\ voices' = Append(stopped,
                  [id |-> id, handle |-> NoHandle, music |-> TRUE,
                   loop |-> (loop # "false"),
                   volume |-> OrDefault(SoundVolume(id), DefaultMusicVolume),
                   gain |-> VoiceGain(OrDefault(SoundVolume(id),
                                                DefaultMusicVolume)),
                   playing |-> TRUE, endedQueued |-> FALSE])
             /\ backgroundMusic' = Len(voices) + 1
             /\ backgroundMusicId' = id
        ELSE /\ voices' = stopped
             /\ backgroundMusic' = 0
             /\ UNCHANGED backgroundMusicId
  /\ UNCHANGED <<gestures, masterVolume, muted, now, activeSounds,
                 nonPlaybackVars>>

\* stopBackgroundMusic(): false is returned without background music; else
\* the node is stopped and forgotten
StopBackgroundMusic ==
  /\ backgroundMusic # 0
  /\ voices' = StopSource(voices, backgroundMusic)
  /\ backgroundMusic' = 0
  /\ backgroundMusicId' = "null"
  /\ UNCHANGED <<context, gestures, gainValue, masterVolume, muted, now,
                 activeSounds, nonPlaybackVars>>

\* a node that does not loop plays its buffer to the end
NaturalEnd(i) ==
  /\ i \in 1..Len(voices)
  /\ voices[i].playing
  /\ ~voices[i].loop
  /\ voices' = [voices EXCEPT ![i].playing = FALSE, ![i].endedQueued = TRUE]
  /\ UNCHANGED <<context, gestures, gainValue, masterVolume, muted, now,
                 activeSounds, backgroundMusic, backgroundMusicId,
                 nonPlaybackVars>>

\* source.onended of the node: a sound deletes its instance id from the
\* table; music that does not loop sets backgroundMusic and
\* backgroundMusicId to null
EndedEvent(i) ==
  /\ i \in 1..Len(voices)
  /\ voices[i].endedQueued
  /\ voices' = [voices EXCEPT ![i] = Finished]
  /\ IF voices[i].music
     THEN /\ IF ~voices[i].loop
             THEN backgroundMusic' = 0 /\ backgroundMusicId' = "null"
             ELSE UNCHANGED <<backgroundMusic, backgroundMusicId>>
          /\ UNCHANGED activeSounds
     ELSE /\ activeSounds' = TableDelete(activeSounds, voices[i].handle)
          /\ UNCHANGED <<backgroundMusic, backgroundMusicId>>
  /\ UNCHANGED <<context, gestures, gainValue, masterVolume, muted, now,
                 nonPlaybackVars>>

Max(a, b) == IF a > b THEN a ELSE b

Min(a, b) == IF a < b THEN a ELSE b

\* setMasterVolume(volume): the volume is clamped to [0, 1]; with a gain
\* node its gain is 0 when muted, else the master volume
SetMasterVolume(volume) ==
  /\ masterVolume' = Max(0, Min(FullVolume, volume))
  /\ gainValue' = IF context
                  THEN (IF muted THEN 0 ELSE Max(0, Min(FullVolume, volume)))
                  ELSE gainValue
  /\ UNCHANGED <<context, gestures, muted, now, voices, activeSounds,
                 backgroundMusic, backgroundMusicId, nonPlaybackVars>>

\* mute()
Mute ==
  /\ muted' = TRUE
  /\ gainValue' = IF context THEN 0 ELSE gainValue
  /\ UNCHANGED <<context, gestures, masterVolume, now, voices, activeSounds,
                 backgroundMusic, backgroundMusicId, nonPlaybackVars>>

\* unmute()
Unmute ==
  /\ muted' = FALSE
  /\ gainValue' = IF context THEN masterVolume ELSE gainValue
  /\ UNCHANGED <<context, gestures, masterVolume, now, voices, activeSounds,
                 backgroundMusic, backgroundMusicId, nonPlaybackVars>>

\* toggleMute(): unmute() when muted, else mute()
ToggleMute ==
  /\ muted' = ~muted
  /\ gainValue' = IF context
                  THEN (IF muted THEN masterVolume ELSE 0)
                  ELSE gainValue
  /\ UNCHANGED <<context, gestures, masterVolume, now, voices, activeSounds,
                 backgroundMusic, backgroundMusicId, nonPlaybackVars>>

\* the volumes given to setMasterVolume: below, inside and above [0, 1]
MasterVolumes == {-1, 5, 12}

\* the instance ids a caller can hold
Handles == {voices[i].handle : i \in 1..Len(voices)} \ {NoHandle}

\* preloadAudioAssets has loaded the effect and the music: loadSound has
\* created the context, the gain at the master volume
SoundsLoaded ==
  /\ sounds = SoundIds
  /\ soundStage = [id \in SoundIds |-> "loaded"]
  /\ audioAssets = {"effects", "music"}
  /\ audioPc = "done"
  /\ context = TRUE
  /\ gainValue = FullVolume
  /\ gestures = 0
  /\ masterVolume = FullVolume
  /\ muted = FALSE
  /\ now = 0
  /\ voices = <<>>
  /\ activeSounds = {}
  /\ backgroundMusic = 0
  /\ backgroundMusicId = "null"

\* a sound manager just constructed, or one whose sounds are loaded; no
\* assets are requested and no scene is played
InitSound ==
  /\ SceneConstructed
  /\ NoGame
  /\ assets = {}
  /\ assetObjs = [id \in AssetIds |-> NoAsset]
  /\ loadPromises = {}
  /\ loadStage = [id \in AssetIds |-> "none"]
  /\ fetches = [id \in AssetIds |-> 0]
  /\ calls = <<>>
  /\ managersDisposed = FALSE
  /\ unhandledRejections = 0
  /\ lastDraw = NoDraw
  /\ TouchIdle
  /\ PhysicsIdle
  /\ NoBehaviors
  /\ LevelIdle
  /\ GroundIdle
  /\ \/ sounds = {} /\ soundStage = [id \in SoundIds |-> "none"]
        /\ audioPc = "none" /\ audioAssets = {} /\ PlaybackIdle
     \/ SoundsLoaded

\* a sound id that no loadSound call was made for
UnloadedId == "fanfare"

NextSound ==
  \/ Initialize
  \/ ClockTick
  \/ \E random \in 0..MaxRandom : PlaySound(EffectId, random)
  \/ \E handle \in Handles : StopSound(handle)
  \/ StopAllSounds
  \/ \E id \in {MusicId, UnloadedId}, loop \in {"undefined", "false"} :
       PlayBackgroundMusic(id, loop)
  \/ StopBackgroundMusic
  \/ \E i \in 1..MaxVoices : NaturalEnd(i)
  \/ \E i \in 1..MaxVoices : EndedEvent(i)
  \/ \E volume \in MasterVolumes : SetMasterVolume(volume)
  \/ Mute
  \/ Unmute
  \/ ToggleMute

SpecSound == InitSound /\ [][NextSound]_vars


-----------------------------------------------------------------------------
(***************************************************************************)
(* InputManager: touch controls.  Lengths are counted in units of 20       *)
(* pixels; the canvas is 12 units wide and 6 high.                         *)
(***************************************************************************)
CanvasWidth == 12

CanvasHeight == 6

ButtonSize == 3     \* 60 pixels

\* the virtual buttons GameCanvas adds on a touch device: left, right, jump
CanvasButtons ==
  << [x |-> 1, y |-> CanvasHeight - 5, width |-> ButtonSize,
      height |-> ButtonSize, action |-> "left", pressed |-> FALSE],
     [x |-> 5, y |-> CanvasHeight - 5, width |-> ButtonSize,
      height |-> ButtonSize, action |-> "right", pressed |-> FALSE],
     [x |-> CanvasWidth - 4, y |-> CanvasHeight - 5, width |-> ButtonSize,
      height |-> ButtonSize, action |-> "jump", pressed |-> FALSE] >>

\* where a finger can be: outside every button, on an edge or a corner of
\* one, between two
TouchPoints == [x : {0, 4, 5, 8}, y : {0, 1}]

\* the bounds test of checkVirtualButtonPress
InsideButton(button, x, y) ==
  /\ x >= button.x
  /\ x <= button.x + button.width
  /\ y >= button.y
  /\ y <= button.y + button.height

\* checkVirtualButtonPress(x, y, isPress)
CheckVirtualButtonPress(buttons, x, y, isPress) ==
  [i \in 1..Len(buttons) |->
     IF isPress
     THEN (IF InsideButton(buttons[i], x, y)
           THEN [buttons[i] EXCEPT !.pressed = TRUE]
           ELSE buttons[i])
     ELSE [buttons[i] EXCEPT !.pressed = FALSE]]

\* the buttons the point falls into
ButtonsAt(point) ==
  {i \in 1..Len(virtualButtons) :
     InsideButton(virtualButtons[i], point.x, point.y)}

nonTouchVars == <<sceneVars, engineVars, playbackVars, physVars, entityVars,
                  levelVars, groundVars>>

\* addVirtualButton(button), as GameCanvas calls it
AddVirtualButton ==
  /\ Len(virtualButtons) < Len(CanvasButtons)
  /\ virtualButtons' =
       Append(virtualButtons, CanvasButtons[Len(virtualButtons) + 1])
  /\ UNCHANGED <<touchStart, touchEnd, touching, touchHits, nonTouchVars>>

\* handleTouchStart: a finger is put on the point
HandleTouchStart(point) ==
  /\ ~touching
  /\ touching' = TRUE
  /\ touchStart' = point
  /\ touchEnd' = NoPoint
  /\ virtualButtons' =
       CheckVirtualButtonPress(virtualButtons, point.x, point.y, TRUE)
  /\ touchHits' = touchHits \cup ButtonsAt(point)
  /\ UNCHANGED nonTouchVars

\* handleTouchMove: the finger moves to the point
HandleTouchMove(point) ==
  /\ touching
  /\ touchEnd' = point
  /\ touchHits' = touchHits \cup ButtonsAt(point)
  /\ UNCHANGED <<virtualButtons, touchStart, touching, nonTouchVars>>

\* handleTouchEnd: the finger is lifted
HandleTouchEnd ==
  /\ touching
  /\ touching' = FALSE
  /\ virtualButtons' = CheckVirtualButtonPress(virtualButtons, 0, 0, FALSE)
  /\ touchHits' = {}
  /\ UNCHANGED <<touchStart, touchEnd, nonTouchVars>>

InitTouch ==
  /\ SceneConstructed
  /\ NoEngine

NextTouch ==
  \/ AddVirtualButton
  \/ \E point \in TouchPoints : HandleTouchStart(point)
  \/ \E point \in TouchPoints : HandleTouchMove(point)
  \/ HandleTouchEnd

SpecTouch == InitTouch /\ [][NextTouch]_vars

-----------------------------------------------------------------------------
(***************************************************************************)
(* Physics: detectCollision and resolveCollision on one pair of objects,   *)
(* as checkCollisions calls them.                                          *)
(***************************************************************************)
\* the velocities of a: the products with the bounce coefficients are whole
Velocities == {0 - 10, 0 - 2, 0, 2, 10}

\* the coefficients of a: undefined, 0.5, 1
Coefficients == {NoCoefficient, 5, 10}

\* the positions of a, around and inside b
Positions == 2..8

\* a: a box of 2 by 2
ObjectA(x, y, vx, vy, bouncy, coefficient, onGround) ==
  [MakeEntity({}, x, y, 2, 2, vx, vy, NoData)
     EXCEPT !.bouncy = bouncy, !.bounceCoefficient = coefficient,
            !.onGround = onGround]

\* b: a box of 4 by 4 at (4, 4), a platform or not
ObjectB(tags) == MakeEntity(tags, 4, 4, 4, 4, 0, 0, NoData)

\* the reflected velocity is a whole number
ExactBounce(a) ==
  /\ (a.velocityX * BounceCoefficient(a)) % CoefficientScale = 0
  /\ (a.velocityY * BounceCoefficient(a)) % CoefficientScale = 0

nonPhysVars == <<sceneVars, engineVars, playbackVars, touchVars, entityVars,
                 levelVars, groundVars>>

\* checkCollisions: detectCollision(entity, other)
Detect ==
  /\ colPc = "start"
  /\ colResult' = DetectCollision(colA, colB)
  /\ colPc' = "detected"
  /\ UNCHANGED <<colA, colB, colOut, nonPhysVars>>

\* checkCollisions: resolveCollision(entity, other, result) when the result
\* is a collision
Resolve ==
  /\ colPc = "detected"
  /\ colResult.collided
  /\ colOut' = ResolveCollision(colA, colB, colResult)
  /\ colPc' = "resolved"
  /\ UNCHANGED <<colA, colB, colResult, nonPhysVars>>

InitPhysics ==
  /\ SceneConstructed
  /\ NoGame
  /\ ManagersConstructed
  /\ audioAssets = {}
  /\ PlaybackIdle
  /\ TouchIdle
  /\ NoBehaviors
  /\ LevelIdle
  /\ GroundIdle
  /\ colPc = "start"
  /\ colA \in {ObjectA(x, y, vx, vy, bouncy, c, g) :
                 x \in Positions, y \in Positions, vx \in Velocities,
                 vy \in Velocities, bouncy \in BOOLEAN, c \in Coefficients,
                 g \in BOOLEAN}
  /\ ExactBounce(colA)
  /\ colB \in {ObjectB({}), ObjectB({"platform"})}
  /\ colResult = NoCollision
  /\ colOut = colA

NextPhysics ==
  \/ Detect
  \/ Resolve

SpecPhysics == InitPhysics /\ [][NextPhysics]_vars

-----------------------------------------------------------------------------
(***************************************************************************)
(* Entity: addBehavior and removeBehavior.  The hooks of a behavior are    *)
(* counted, not run.                                                       *)
(***************************************************************************)
MaxBehaviorCalls == 4   \* addBehavior and removeBehavior calls in a run

BehaviorNames == {BehaviorObjects[b].name : b \in DOMAIN BehaviorObjects}

\* behaviors.has(name), behaviors.get(name) (0 for undefined),
\* behaviors.delete(name), behaviors.set(name, behavior)
HasBehavior(map, name) == \E e \in map : e.name = name

GetBehavior(map, name) ==
  IF HasBehavior(map, name)
  THEN (CHOOSE e \in map : e.name = name).behavior
  ELSE 0

DeleteBehavior(map, name) == {e \in map : e.name # name}

SetBehavior(map, name, b) ==
  DeleteBehavior(map, name) \cup {[name |-> name, behavior |-> b]}

\* the destroy counts after removeBehavior(name) on the map
DestroyedBy(map, name, counts) ==
  LET old == GetBehavior(map, name)
  IN IF old # 0 /\ BehaviorObjects[old].destroy
     THEN [counts EXCEPT ![old] = counts[old] + 1]
     ELSE counts

nonEntityVars == <<sceneVars, engineVars, playbackVars, touchVars, physVars,
                   levelVars, groundVars>>

\* addBehavior(behavior) that sets the new behavior over the old one without
\* removeBehavior
AddBehavior_NoRemove(b) ==
  /\ behaviorCalls < MaxBehaviorCalls
  /\ behaviorCalls' = behaviorCalls + 1
  /\ lastCall' = [op |-> "add", name |-> BehaviorObjects[b].name,
                  behavior |-> b,
                  replaced |-> GetBehavior(behaviors, BehaviorObjects[b].name)]
  /\ UNCHANGED destroyCalls
  /\ behaviors' = SetBehavior(behaviors, BehaviorObjects[b].name, b)
  /\ initCalls' = IF BehaviorObjects[b].init
                  THEN [initCalls EXCEPT ![b] = initCalls[b] + 1]
                  ELSE initCalls
  /\ UNCHANGED <<lifeVars, nonEntityVars>>

\* addBehavior(behavior): removeBehavior(name) when the name is attached;
\* the behavior is set under its name and its init hook, when it has one,
\* is called
AddBehavior(b) ==
  /\ behaviorCalls < MaxBehaviorCalls
  /\ behaviorCalls' = behaviorCalls + 1
  /\ lastCall' = [op |-> "add", name |-> BehaviorObjects[b].name,
                  behavior |-> b,
                  replaced |-> GetBehavior(behaviors, BehaviorObjects[b].name)]
  /\ destroyCalls' =
       IF HasBehavior(behaviors, BehaviorObjects[b].name)
       THEN DestroyedBy(behaviors, BehaviorObjects[b].name, destroyCalls)
       ELSE destroyCalls
  /\ behaviors' =
       SetBehavior(IF HasBehavior(behaviors, BehaviorObjects[b].name)
                   THEN DeleteBehavior(behaviors, BehaviorObjects[b].name)
                   ELSE behaviors,
                   BehaviorObjects[b].name, b)
  /\ initCalls' = IF BehaviorObjects[b].init
                  THEN [initCalls EXCEPT ![b] = initCalls[b] + 1]
                  ELSE initCalls
  /\ UNCHANGED <<lifeVars, nonEntityVars>>

\* removeBehavior(name): the destroy hook of the behavior attached under the
\* name, when there is one and it has the hook, is called; the name is
\* deleted
RemoveBehavior(name) ==
  /\ behaviorCalls < MaxBehaviorCalls
  /\ behaviorCalls' = behaviorCalls + 1
  /\ lastCall' = [op |-> "remove", name |-> name, behavior |-> 0,
                  replaced |-> GetBehavior(behaviors, name)]
  /\ destroyCalls' = DestroyedBy(behaviors, name, destroyCalls)
  /\ behaviors' = DeleteBehavior(behaviors, name)
  /\ UNCHANGED <<initCalls, lifeVars, nonEntityVars>>

\* setData(key, value)
SetData(key) ==
  /\ behaviorCalls < MaxBehaviorCalls
  /\ behaviorCalls' = behaviorCalls + 1
  /\ lastCall' = [op |-> "setData", name |-> key, behavior |-> 0, replaced |-> 0]
  /\ entityData' = entityData \cup {key}
  /\ UNCHANGED <<behaviors, initCalls, destroyCalls, entityActive, updateCalls,
                 entityDestroys, nonEntityVars>>

\* the hook of the given kind has been called once more on each attached
\* behavior that has it
HooksRun(map, kind, counts) ==
  [b \in DOMAIN BehaviorObjects |->
     IF (\E e \in map : e.behavior = b) /\ BehaviorObjects[b][kind]
     THEN counts[b] + 1
     ELSE counts[b]]

\* update(deltaTime): nothing when inactive; else the update hook of every
\* behavior that has one is called
UpdateEntity ==
  /\ behaviorCalls < MaxBehaviorCalls
  /\ behaviorCalls' = behaviorCalls + 1
  /\ lastCall' = [op |-> "update", name |-> "", behavior |-> 0, replaced |-> 0]
  /\ updateCalls' = IF entityActive
                    THEN HooksRun(behaviors, "update", updateCalls)
                    ELSE updateCalls
  /\ UNCHANGED <<behaviors, initCalls, destroyCalls, entityActive, entityData,
                 entityDestroys, nonEntityVars>>

\* destroy() that leaves the behaviors attached
DestroyEntity_KeepsBehaviors ==
  /\ behaviorCalls < MaxBehaviorCalls
  /\ behaviorCalls' = behaviorCalls + 1
  /\ entityDestroys' = entityDestroys + 1
  /\ lastCall' = [op |-> "destroy", name |-> "", behavior |-> 0, replaced |-> 0]
  /\ destroyCalls' = HooksRun(behaviors, "destroy", destroyCalls)
  /\ entityData' = {}
  /\ entityActive' = FALSE
  /\ UNCHANGED <<behaviors, initCalls, updateCalls, nonEntityVars>>

\* destroy(): the destroy hook of every behavior that has one is called,
\* the behaviors and the data are cleared and the entity is made inactive
DestroyEntity ==
  /\ behaviorCalls < MaxBehaviorCalls
  /\ behaviorCalls' = behaviorCalls + 1
  /\ entityDestroys' = entityDestroys + 1
  /\ lastCall' = [op |-> "destroy", name |-> "", behavior |-> 0, replaced |-> 0]
  /\ destroyCalls' = HooksRun(behaviors, "destroy", destroyCalls)
  /\ behaviors' = {}
  /\ entityData' = {}
  /\ entityActive' = FALSE
  /\ UNCHANGED <<initCalls, updateCalls, nonEntityVars>>

InitEntity ==
  /\ SceneConstructed
  /\ NoEngine

NextEntity ==
  \/ \E b \in DOMAIN BehaviorObjects : AddBehavior(b)
  \/ \E name \in BehaviorNames : RemoveBehavior(name)
  \/ SetData("role")
  \/ UpdateEntity
  \/ DestroyEntity

SpecEntity == InitEntity /\ [][NextEntity]_vars

\* the source nodes of background music that are playing
MusicPlaying == {i \in 1..Len(voices) : voices[i].music /\ voices[i].playing}

\* the source nodes of sound effects that are playing
EffectsPlaying == {i \in 1..Len(voices) : ~voices[i].music /\ voices[i].playing}

\* C21: background music is a singleton: whatever playBackgroundMusic,
\* stopBackgroundMusic and stopAllSounds calls were made, at most one
\* background track is playing, and it is the one in backgroundMusic
C21_OneBackgroundTrack ==
  /\ Cardinality(MusicPlaying) <= 1
  /\ MusicPlaying \subseteq {backgroundMusic}

\* C22: the instances of sound effects that are playing have pairwise
\* different handles, and each of them is in the active-instance table
\* under its handle
C22_HandlesDistinct ==
  \A i \in EffectsPlaying :
    /\ [handle |-> voices[i].handle, source |-> i] \in activeSounds
    /\ \A j \in EffectsPlaying : i # j => voices[i].handle # voices[j].handle

\* C23: mute and master volume act through the shared gain alone: with a
\* context the shared gain is 0 when muted and the master volume otherwise,
\* and the own gain of every playing voice is its per-sound volume
C23_SharedGainOnly ==
  context =>
    /\ gainValue = (IF muted THEN 0 ELSE masterVolume)
    /\ \A i \in 1..Len(voices) :
         voices[i].playing => voices[i].gain = voices[i].volume

\* C24: an audio context exists only after a user gesture
C24_ContextAfterGesture == context => gestures > 0


\* C25: the step that runs InputManager.update() leaves a key just pressed
\* exactly when it is down and was not down at the previous update, and just
\* released exactly when it is not down and was down at the previous update
\* (keysPrevious is the set of keys down at the previous update: only that
\* step changes it); no key is ever both, and a key held across two updates
\* is not just pressed in the second.
C25_EdgesOfOneUpdate ==
  /\ [][(enginePc = "update" /\ enginePc' = "scene")
          => \A k \in Keys :
               /\ k \in keysJustPressed'
                    <=> (keys[k] = "down" /\ k \notin keysPrevious)
               /\ k \in keysJustReleased'
                    <=> (keys[k] # "down" /\ k \in keysPrevious)
               /\ (k \in keysPrevious /\ keys[k] = "down")
                    => k \notin keysJustPressed']_vars
  /\ [][keysPrevious' # keysPrevious
          => (enginePc = "update" /\ enginePc' = "scene"
              /\ keysPrevious' = {k \in Keys : keys[k] = "down"})]_vars
  /\ [](keysJustPressed \cap keysJustReleased = {})

\* the second update of a held key: ArrowRight was down at the update before
\* and is down now, so it is not just pressed, while Space was let go
C25_Witness ==
  /\ enginePc = "scene"
  /\ keys["ArrowRight"] = "down"
  /\ "ArrowRight" \in keysPrevious
  /\ "ArrowRight" \notin keysJustPressed
  /\ keysJustReleased = {"Space"}


\* C26: a virtual button is pressed exactly when a touch start or a touch
\* move since the most recent touch end fell inside its rectangle, bounds
\* included
C26_PressedIffTouched ==
  \A i \in 1..Len(virtualButtons) :
    virtualButtons[i].pressed <=> i \in touchHits


\* C27: after resolveCollision on a top hit, an a that was not moving up
\* stands on b (y = b.y - a.height, velocityY = 0, onGround); an a that was
\* moving up has its position, velocity and onGround unchanged
C27_TopHit ==
  (colPc = "resolved" /\ colResult.direction = "top") =>
    IF colA.velocityY >= 0
    THEN /\ colOut.y = colB.y - colA.height
         /\ colOut.velocityY = 0
         /\ colOut.onGround = TRUE
    ELSE /\ colOut.x = colA.x
         /\ colOut.y = colA.y
         /\ colOut.velocityX = colA.velocityX
         /\ colOut.velocityY = colA.velocityY
         /\ colOut.onGround = colA.onGround

\* a falling a that was in the air has been put on top of b
C27_Witness ==
  /\ colPc = "resolved"
  /\ colResult.direction = "top"
  /\ colA.velocityY > 0
  /\ ~colA.onGround
  /\ colOut.onGround
  /\ colOut.y # colA.y

\* the velocity of a on the axis of the hit, before and after
AxisVelocity(o) ==
  IF colResult.direction = "bottom" THEN o.velocityY ELSE o.velocityX

\* the velocity of a on the other axis
CrossVelocity(o) ==
  IF colResult.direction = "bottom" THEN o.velocityX ELSE o.velocityY

\* C28: after resolveCollision on a left, right or bottom hit a lies flush
\* against b on that side; its velocity on the axis of the hit is minus the
\* incoming velocity times its bounce coefficient (0 when a is not bouncy,
\* minus half the incoming velocity for a bouncy a of coefficient 0.5); its
\* velocity on the other axis is unchanged
C28_SideHit ==
  (colPc = "resolved" /\ colResult.direction \in {"left", "right", "bottom"}) =>
    /\ colResult.direction = "left" => colOut.x = colB.x - colA.width
    /\ colResult.direction = "right" => colOut.x = colB.x + colB.width
    /\ colResult.direction = "bottom" => colOut.y = colB.y + colB.height
    /\ ~colA.bouncy => AxisVelocity(colOut) = 0
    /\ (colA.bouncy /\ colA.bounceCoefficient = 5)
         => 2 * AxisVelocity(colOut) = 0 - AxisVelocity(colA)
    /\ (colA.bouncy /\ colA.bounceCoefficient = NoCoefficient)
         => CoefficientScale * AxisVelocity(colOut)
              = 0 - DefaultBounceCoefficient * AxisVelocity(colA)
    /\ CrossVelocity(colOut) = CrossVelocity(colA)

\* a bouncy a of coefficient 0.5 that hit b moving right at 2 leaves at -1
C28_Witness ==
  /\ colPc = "resolved"
  /\ colResult.direction = "left"
  /\ colA.bouncy
  /\ colA.bounceCoefficient = 5
  /\ colA.velocityX = 2
  /\ colOut.velocityX = 0 - 1
  /\ colOut.x = colB.x - colA.width


\* C29: the step that runs Scene.update with a delta time of 0 leaves the
\* position of every entity of the scene as it was
C29_ZeroDeltaKeepsPositions ==
  [][(enginePc = "scene" /\ enginePc' = "rules" /\ deltaTime = 0)
       => /\ Len(activeScene') = Len(activeScene)
          /\ \A i \in 1..Len(activeScene) :
               /\ activeScene'[i].x = activeScene[i].x
               /\ activeScene'[i].y = activeScene[i].y]_vars


\* the hook counts of the behavior object go up by the given numbers in the
\* step
HooksCalled(b, inits, destroys) ==
  /\ initCalls'[b] = initCalls[b] + inits
  /\ destroyCalls'[b] = destroyCalls[b] + destroys

\* C30: an entity holds at most one behavior per name; the step of an
\* addBehavior whose name was attached calls the destroy hook of the old
\* behavior once (when it has the hook) and detaches it, attaches the new
\* behavior and calls its init hook once (when it has the hook), and calls
\* no other hook
C30_OneBehaviorPerName ==
  /\ [](\A e1, e2 \in behaviors : e1.name = e2.name => e1 = e2)
  /\ [][(behaviorCalls' # behaviorCalls /\ lastCall'.op = "add")
          => LET new == lastCall'.behavior
                 old == lastCall'.replaced
             IN /\ old = GetBehavior(behaviors, BehaviorObjects[new].name)
                /\ GetBehavior(behaviors', BehaviorObjects[new].name) = new
                /\ \A b \in DOMAIN BehaviorObjects :
                     HooksCalled(b,
                       IF b = new /\ BehaviorObjects[b].init THEN 1 ELSE 0,
                       IF b = old /\ BehaviorObjects[b].destroy THEN 1 ELSE 0)
                /\ \A e \in behaviors' :
                     e.behavior = old => e.behavior = new]_vars

\* the second patrol behavior has replaced the first: the first was
\* destroyed once and is no longer attached
C30_Witness ==
  /\ lastCall.op = "add"
  /\ lastCall.behavior = 2
  /\ lastCall.replaced = 1
  /\ destroyCalls[1] = 1
  /\ initCalls[1] = 1
  /\ GetBehavior(behaviors, "patrol") = 2


\* the state of the entity that hooks and callers can see
EntityState ==
  <<behaviors, entityData, entityActive, initCalls, destroyCalls, updateCalls>>

\* C31: the step of a destroy() calls the destroy hook of each attached
\* behavior once, empties the behaviors and the data and makes the entity
\* inactive; the step of a destroy() on an entity that destroy() has left
\* (nothing attached, no data, inactive) calls no hook and changes nothing;
\* the step of an update() on an inactive entity calls no hook and changes
\* nothing
C31_DestroyIdempotent ==
  /\ [][(behaviorCalls' # behaviorCalls /\ lastCall'.op = "destroy")
          => /\ behaviors' = {}
             /\ entityData' = {}
             /\ entityActive' = FALSE
             /\ \A b \in DOMAIN BehaviorObjects :
                  destroyCalls'[b] - destroyCalls[b]
                    = (IF GetBehavior(behaviors, BehaviorObjects[b].name) = b
                          /\ BehaviorObjects[b].destroy
                       THEN 1 ELSE 0)
             /\ (behaviors = {} /\ entityData = {} /\ ~entityActive)
                  => EntityState' = EntityState]_vars
  /\ [][(behaviorCalls' # behaviorCalls /\ lastCall'.op = "update"
         /\ ~entityActive)
          => EntityState' = EntityState]_vars

\* destroy() has been called twice on an entity that had the first patrol
\* behavior attached: its destroy hook has run once
C31_Witness ==
  /\ lastCall.op = "destroy"
  /\ entityDestroys = 2
  /\ behaviorCalls = 4
  /\ initCalls[1] = 1
  /\ destroyCalls[1] = 1
  /\ ~entityActive
  /\ behaviors = {}


-----------------------------------------------------------------------------
(* GameEngine.loadLevel(0) on drawn parameters (SpecLevel) *)

MaxLoads == 2       \* loadLevel(0) calls
MaxEntityId == 2    \* the generated ids are drawn from 0..MaxEntityId
MaxRecords == 3     \* records a drawn game declares for its first level

\* params.player with the optional fields left out
PlayerParams(x, y) ==
  [declared |-> TRUE, startX |-> x, startY |-> y, size |-> Undefined,
   speed |-> Undefined, jumpForce |-> Undefined]

\* params.player is absent
NoPlayer == [PlayerParams(Undefined, Undefined) EXCEPT !.declared = FALSE]

\* an entry of params.enemies
EnemyParams(x, y, speed, direction) ==
  [x |-> x, y |-> y, size |-> Undefined, speed |-> speed, direction |-> direction,
   speedY |-> Undefined, range |-> Undefined, behavior |-> ""]

\* an entry of params.collectibles
CollectibleParams(x, y) == [x |-> x, y |-> y, size |-> Undefined, value |-> Undefined]

\* an entry of the level's platforms that gives nothing but its type
BarePlatform ==
  [SolidPlatform(Undefined, Undefined, Undefined, Undefined)
     EXCEPT !.moveSpeed = Undefined, !.moveDistance = Undefined,
            !.disappearDuration = Undefined]

LevelGame(levels, player, enemies, collectibles) ==
  [world |-> [width |-> 800, height |-> 600, gravity |-> 1, friction |-> 1,
              levels |-> levels],
   player |-> player, enemies |-> enemies, collectibles |-> collectibles,
   sprites |-> <<>>]

\* the records the parameters declare for a level, in creation order
LevelRecords(data, levelIndex) ==
  (IF data.player.declared
   THEN << [tag |-> "player", x |-> data.player.startX, y |-> data.player.startY] >>
   ELSE <<>>)
  \o [i \in 1..Len(data.enemies) |->
        [tag |-> "enemy", x |-> data.enemies[i].x, y |-> data.enemies[i].y]]
  \o [i \in 1..Len(data.collectibles) |->
        [tag |-> "collectible", x |-> data.collectibles[i].x,
         y |-> data.collectibles[i].y]]
  \o [i \in 1..Len(LevelAt(data, levelIndex).platforms) |->
        [tag |-> "platform", x |-> LevelAt(data, levelIndex).platforms[i].x,
         y |-> LevelAt(data, levelIndex).platforms[i].y]]

LevelGames ==
  { g \in { LevelGame(levels, player, enemies, collectibles) :
              levels \in { << Level(0, <<>>) >>,
                           << Level(0, << SolidPlatform(0, 20, 40, 2) >>) >>,
                           << Level(0, << BarePlatform >>) >>,
                           << >> },
              player \in { NoPlayer, PlayerParams(7, 9), PlayerParams(0, 9),
                           PlayerParams(Undefined, Undefined) },
              enemies \in { <<>>,
                            << EnemyParams(3, 9, 4, 0 - 1) >>,
                            << EnemyParams(3, 0, Undefined, 1) >>,
                            << EnemyParams(3, 9, 4, Undefined) >>,
                            << EnemyParams(Undefined, Undefined, Undefined, Undefined) >> },
              collectibles \in { <<>>, << CollectibleParams(6, 17) >>,
                                 << CollectibleParams(Undefined, Undefined) >> } } :
      Len(LevelRecords(g, 0)) <= MaxRecords }

\* Map.set(id, entity) on the entries of the scene
SceneSet(map, id, entity) ==
  IF \E i \in DOMAIN map : map[i].id = id
  THEN [i \in DOMAIN map |->
          IF map[i].id = id THEN [map[i] EXCEPT !.entity = entity] ELSE map[i]]
  ELSE Append(map, [id |-> id, entity |-> entity])

\* activeScene.addEntity for each created entity in turn; the scene is not
\* updating while a level loads; an entity made without an id gets the
\* generated one
RECURSIVE AddEntities(_, _, _, _)
AddEntities(map, ents, ids, i) ==
  IF i > Len(ents) THEN map
  ELSE AddEntities(SceneSet(map, ids[i], ents[i]), ents, ids, i + 1)

\* the entities of the scene without their ids
Layout(map) == [i \in DOMAIN map |-> map[i].entity]

nonLevelVars == <<sceneVars, engineVars, playbackVars, touchVars, physVars,
                  entityVars, groundVars>>

\* loadLevel(0): the scene is cleared; when the level exists an entity is
\* made for the player, each enemy, each collectible and each platform, with
\* ids generated from the clock and a random number
LoadLevelZero ==
  /\ levelLoads < MaxLoads
  /\ levelLoads' = levelLoads + 1
  /\ IF ~LevelAt(levelParams, 0).exists
     THEN levelScene' = <<>>
     ELSE LET ents == LevelEntities(levelParams, 0)
          IN \E ids \in [1..Len(ents) -> 0..MaxEntityId] :
               levelScene' = AddEntities(<<>>, ents, ids, 1)
  /\ firstLayout' = IF levelLoads = 0 THEN Layout(levelScene') ELSE firstLayout
  /\ UNCHANGED <<levelParams, nonLevelVars>>

InitLevel ==
  /\ SceneConstructed
  /\ NoGame
  /\ ManagersConstructed
  /\ audioAssets = {}
  /\ PlaybackIdle
  /\ TouchIdle
  /\ PhysicsIdle
  /\ NoBehaviors
  /\ GroundIdle
  /\ levelParams \in LevelGames
  /\ levelScene = <<>>
  /\ levelLoads = 0
  /\ firstLayout = <<>>

NextLevel == LoadLevelZero

SpecLevel == InitLevel /\ [][NextLevel]_vars

\* C32: after loadLevel(0) of an existing level the scene holds one entity
\* for each declared record, in order, under ids of its own, with the tag of
\* its role and at the x and y its record gives (0 included); a second
\* loadLevel(0) leaves the same entities as the first
C32_OneEntityPerRecord ==
  (levelLoads > 0 /\ LevelAt(levelParams, 0).exists)
    => LET records == LevelRecords(levelParams, 0)
       IN /\ Len(levelScene) = Len(records)
          /\ \A i \in DOMAIN levelScene :
               i \in DOMAIN records =>
                 /\ records[i].tag \in levelScene[i].entity.tags
                 /\ records[i].x # Undefined => levelScene[i].entity.x = records[i].x
                 /\ records[i].y # Undefined => levelScene[i].entity.y = records[i].y
          /\ \A i, j \in DOMAIN levelScene :
               levelScene[i].id = levelScene[j].id => i = j
          /\ levelLoads > 1 => Layout(levelScene) = firstLayout

\* the numeric fields of an entity
NumericFields(e) == <<e.x, e.y, e.width, e.height, e.velocityX, e.velocityY>>

\* the entry of params.enemies an enemy entity was made from: the drawn
\* games declare one enemy at most
EnemyRecord(data) == data.enemies[1]

\* C33: after loadLevel(0) of an existing level every x, y, width, height,
\* velocityX and velocityY in the scene is a number (not undefined, not NaN);
\* an enemy declared without a speed has speed 2 and, with a direction,
\* velocityX of direction times 2; an enemy declared without a direction has
\* velocityX 0; an entity whose record gives no x, y or size has the default
\* of its kind; parameters without enemies or collectibles make none
C33_DefaultsAreNumbers ==
  (levelLoads > 0 /\ LevelAt(levelParams, 0).exists)
    => /\ \A i \in DOMAIN levelScene :
            LET e == levelScene[i].entity
            IN /\ \A k \in 1..6 : NumericFields(e)[k] \in Int \ {Undefined, NaN}
               /\ "enemy" \in e.tags =>
                    LET enemy == EnemyRecord(levelParams)
                    IN /\ enemy.speed = Undefined => e.data.speed = 2
                       /\ (enemy.speed = Undefined /\ enemy.direction # Undefined)
                            => e.velocityX = enemy.direction * 2
                       /\ enemy.direction = Undefined => e.velocityX = 0
                       /\ enemy.x = Undefined => e.x = 200 + 0 * 100
                       /\ enemy.y = Undefined => e.y = 100
                       /\ e.width = 32 /\ e.height = 32 /\ e.velocityY = 0
               /\ "player" \in e.tags =>
                    /\ levelParams.player.startX = Undefined => e.x = 100
                    /\ levelParams.player.startY = Undefined => e.y = 100
                    /\ e.width = 32 /\ e.height = 32
               /\ "collectible" \in e.tags => e.width = 24 /\ e.height = 24
               /\ e.tags = {"platform"} =>
                    /\ LevelAt(levelParams, 0).platforms[1].width = Undefined
                         => e.width = 100 /\ e.height = 20 /\ e.x = 100 /\ e.y = 400
       /\ levelParams.enemies = <<>>
            => \A i \in DOMAIN levelScene : "enemy" \notin levelScene[i].entity.tags
       /\ levelParams.collectibles = <<>>
            => \A i \in DOMAIN levelScene :
                 "collectible" \notin levelScene[i].entity.tags

\* a level was loaded whose only enemy gives neither speed nor direction, nor
\* a place: it stands at the default place with speed 2 and velocityX 0
C33_Witness ==
  /\ levelLoads = 1
  /\ levelParams.enemies = << EnemyParams(Undefined, Undefined, Undefined, Undefined) >>
  /\ \E i \in DOMAIN levelScene :
       /\ "enemy" \in levelScene[i].entity.tags
       /\ levelScene[i].entity.velocityX = 0
       /\ levelScene[i].entity.data.speed = 2
       /\ levelScene[i].entity.x = 200


\* the four penetration depths of a into b: top, bottom, left, right
Penetrations(a, b) ==
  [top |-> a.y + a.height - b.y, bottom |-> b.y + b.height - a.y,
   left |-> a.x + a.width - b.x, right |-> b.x + b.width - a.x]

\* the first of top, bottom, left, right whose depth is the least
LeastSide(a, b) ==
  LET depth == Penetrations(a, b)
      least == Min4(depth.top, depth.bottom, depth.left, depth.right)
  IN IF depth.top = least THEN "top"
     ELSE IF depth.bottom = least THEN "bottom"
     ELSE IF depth.left = least THEN "left"
     ELSE "right"

\* C34: detectCollision(a, b) reports no collision when a or b is not solid
\* or every penetration depth is not positive together; otherwise it reports
\* top when b is a platform, a moves down and the top depth is under half of
\* a's height, and else the first of top, bottom, left, right whose depth is
\* the least
C34_MinPenetrationSide ==
  colPc \in {"detected", "resolved"}
    => LET depth == Penetrations(colA, colB)
       IN IF ~colA.solid \/ ~colB.solid
             \/ ~(depth.top > 0 /\ depth.bottom > 0 /\ depth.left > 0 /\ depth.right > 0)
          THEN ~colResult.collided
          ELSE /\ colResult.collided
               /\ colResult.direction =
                    IF "platform" \in colB.tags /\ colA.velocityY > 0
                       /\ 2 * depth.top < colA.height
                    THEN "top"
                    ELSE LeastSide(colA, colB)


-----------------------------------------------------------------------------
(* Scene.update on a walker and a platform (SpecGround) *)

MaxPasses == 6      \* Scene.update passes
StaleLimit == 3     \* passes in a row a walker may stay marked onGround with
                    \* no solid under it

\* a box of 2 by 2 that is no platform
Walker(x, y, vx, onGround) ==
  [MakeEntity({}, x, y, 2, 2, vx, 0, NoData) EXCEPT !.onGround = onGround]

\* a platform of 4 by 2 at (4, 10)
Ledge == MakeEntity({"platform"}, 4, 10, 4, 2, 0, 0, NoData)

\* e stands on b: its bottom is at b's top and the two overlap sideways
StandsOn(e, b) ==
  /\ b.active /\ b.solid
  /\ e.y + e.height = b.y
  /\ e.x < b.x + b.width
  /\ e.x + e.width > b.x

\* e stands on some other entity of the scene
Resting(ents, i) == \E j \in DOMAIN ents : j # i /\ StandsOn(ents[i], ents[j])

\* the walker (the first entity) is marked onGround with nothing under it
Stale(ents) == ents[1].onGround /\ ~Resting(ents, 1)

\* the scene's gravity and friction
GroundGravity == 1

GroundFriction == 1

nonGroundVars == <<sceneVars, engineVars, playbackVars, touchVars, physVars,
                   entityVars, levelVars>>

\* Scene.update(deltaTime)
GroundPass ==
  /\ groundPasses < MaxPasses
  /\ groundPasses' = groundPasses + 1
  /\ groundScene' = SceneUpdate(groundScene, GroundGravity, GroundFriction)
  /\ stalePasses' = IF Stale(groundScene') THEN stalePasses + 1 ELSE 0
  /\ UNCHANGED nonGroundVars

\* the walker stands on the ledge, marked onGround, or is in the air above it
InitGround ==
  /\ SceneConstructed
  /\ NoGame
  /\ ManagersConstructed
  /\ audioAssets = {}
  /\ PlaybackIdle
  /\ TouchIdle
  /\ PhysicsIdle
  /\ NoBehaviors
  /\ LevelIdle
  /\ groundPasses = 0
  /\ stalePasses = 0
  /\ groundScene \in
       { << Walker(x, 8, vx, TRUE), Ledge >> : x \in 3..7, vx \in (0 - 2)..2 }
       \cup { << Walker(x, y, vx, FALSE), Ledge >> :
                x \in 3..7, y \in 4..7, vx \in (0 - 2)..2 }

NextGround == GroundPass

SpecGround == InitGround /\ [][NextGround]_vars

\* C35: a walker marked onGround with no solid under it does not stay so for
\* more than StaleLimit Scene.update passes in a row
C35_GroundNotStale == stalePasses <= StaleLimit


\* the player of the engine's scene
ThePlayer(ents) == ents[PlayerIndex(ents)]

\* a jump key is down
JumpHeld == Inputs \cap {"ArrowUp", "KeyW", "Space"} # {}

\* C36: the step of the movement and jump rule sets the player's velocityY to
\* minus its jumpForce and onGround to false when a jump key is down and the
\* player is onGround, and leaves both as they are otherwise; and onGround
\* of the player turns from false to true only in the step of Scene.update,
\* by a top collision that stops the player on another entity
C36_JumpOnlyOnGround ==
  /\ [][(enginePc = "rules" /\ enginePc' = "collect")
          => LET before == ThePlayer(activeScene)
                 after == ThePlayer(activeScene')
             IN IF JumpHeld /\ before.onGround
                THEN /\ after.velocityY = 0 - before.data.jumpForce
                     /\ ~after.onGround
                ELSE /\ after.velocityY = before.velocityY
                     /\ after.onGround = before.onGround]_vars
  /\ [][(/\ PlayerIndex(activeScene) # 0
         /\ PlayerIndex(activeScene') # 0
         /\ ~ThePlayer(activeScene).onGround
         /\ ThePlayer(activeScene').onGround)
          => /\ enginePc = "scene"
             /\ ThePlayer(activeScene').velocityY = 0
             /\ Resting(activeScene', PlayerIndex(activeScene'))]_vars

\* the player has just jumped off the ground with the jump key down
C36_Witness ==
  /\ enginePc = "collect"
  /\ JumpHeld
  /\ PlayerIndex(activeScene) # 0
  /\ ThePlayer(activeScene).velocityY = 0 - ThePlayer(activeScene).data.jumpForce
  /\ ~ThePlayer(activeScene).onGround


\* the temporary platforms of the engine's scene, as indices
TemporaryPlatforms(ents) ==
  {i \in DOMAIN ents : "platform" \in ents[i].tags /\ ents[i].data.temporary}

\* C37: the step of the jump rule in which the player jumps while standing on
\* a temporary platform whose countdown has not started sets that platform's
\* disappearTime to its disappearDuration; the step of a tick that handles
\* the platforms lowers a started countdown by the tick's delta time, or,
\* when that reaches 0 or less, makes the platform inactive and invisible;
\* and no step of a tick makes an inactive temporary platform active or
\* visible again
C37_TemporaryPlatformCountdown ==
  /\ [][(enginePc = "rules" /\ enginePc' = "collect" /\ JumpHeld
         /\ ThePlayer(activeScene).onGround)
          => \A i \in TemporaryPlatforms(activeScene) :
               (StandsOn(ThePlayer(activeScene), activeScene[i])
                /\ activeScene[i].data.disappearTime = 0)
                 => activeScene'[i].data.disappearTime
                      = activeScene[i].data.disappearDuration]_vars
  /\ [][(enginePc = "update" /\ enginePc' = "scene")
          => \A i \in TemporaryPlatforms(activeScene) :
               (activeScene[i].active /\ activeScene[i].data.disappearTime > 0)
                 => IF activeScene[i].data.disappearTime - deltaTime <= 0
                    THEN ~activeScene'[i].active /\ ~activeScene'[i].visible
                    ELSE activeScene'[i].data.disappearTime
                           = activeScene[i].data.disappearTime - deltaTime]_vars
  /\ [][(enginePc # "idle" /\ enginePc' # "idle")
          => \A i \in TemporaryPlatforms(activeScene) :
               ~activeScene[i].active
                 => ~activeScene'[i].active /\ ~activeScene'[i].visible]_vars

\* a countdown of a temporary platform has started
C37_CountdownStarted ==
  \E i \in TemporaryPlatforms(activeScene) : activeScene[i].data.disappearTime > 0


\* the collectibles of the engine's scene, as indices
Collectibles(ents) == {i \in DOMAIN ents : "collectible" \in ents[i].tags}

\* C38: no step of a tick makes a collected (inactive) collectible active
\* again, and the step of the collectible rule adds to the score and to the
\* collected count exactly for the collectibles it makes inactive; the
\* collected count never exceeds the number of collectibles of the loaded
\* level; and the score goes down only in the step of the restart after the
\* game was completed
C38_CollectedOnce ==
  /\ [][(enginePc # "idle" /\ enginePc' # "idle")
          => \A i \in Collectibles(activeScene) :
               ~activeScene[i].active => ~activeScene'[i].active]_vars
  /\ [][(enginePc = "collect" /\ enginePc' # "collect")
          => /\ collectedItems' - collectedItems
                  = Cardinality({i \in Collectibles(activeScene) :
                                   activeScene[i].active /\ ~activeScene'[i].active})
             /\ (collectedItems' = collectedItems) => (score' = score)]_vars
  /\ [](Collectibles(activeScene) # {}
          => collectedItems <= Cardinality(Collectibles(activeScene)))
  /\ [][score' < score => (gameCompleted /\ ~gameCompleted' /\ score' = 0)]_vars


\* C39: getBackgroundMusicId() is not null exactly when a source node is held
\* in backgroundMusic
C39_MusicIdMatchesSlot == (backgroundMusicId # "null") <=> (backgroundMusic # 0)


\* C40: the current level index is an index of the declared level list
C40_LevelIndexValid ==
  /\ 0 <= currentLevelIndex
  /\ currentLevelIndex < Len(Levels(gameData))

\* the transition timer has moved the engine to the last of several levels
C40_Witness ==
  /\ Len(Levels(gameData)) > 1
  /\ currentLevelIndex = Len(Levels(gameData)) - 1
  /\ ~levelTransitioning
  /\ timers = <<>>

=============================================================================
